---- MODULE Spec2Model ----
(***************************************************************************)
(* Model of the auction engine of the lending pool: the block-indexed      *)
(* scaling curve, partial fills, the storage lifecycle of auctions in      *)
(* temporary ledger storage, and the deletion paths.                       *)
(***************************************************************************)
EXTENDS Integers, Sequences, FiniteSets, TLC

(* ------------------------------ constants ------------------------------ *)

SCALAR_7 == 10000000
per_block_scalar == 50000
ONE_DAY_LEDGERS == 17280
LEDGER_THRESHOLD_SHARED == ONE_DAY_LEDGERS * 45
LEDGER_BUMP_SHARED == LEDGER_THRESHOLD_SHARED + ONE_DAY_LEDGERS

BadRequest == 1200
InvalidLiquidation == 1211
\* Failures whose numeric code the auction module does not fix are told apart
\* by small tags:
\* a panic that carries no contract error code (unwrap on a missing entry,
\* arithmetic overflow, a failed call into another contract)
HostTrap == 1
\* a position or balance that would become negative
BalanceError == 2
\* an auction is already stored for the (type, user)
AuctionInProgress == 3
\* require_auth of an address that did not authorize the invocation
AuthError == 4
\* the positions of `from` are not healthy after the last request
InvalidHf == 1206
InvalidReserveMetadata == 1202
\* set_reserve before the queued change's unlock time
InitNotUnlocked == 1203
MaxPositionsExceeded == 1208
StatusNotAllowed == 1205
InvalidPoolStatus == 1207

\* the most reserves a pool lists
MAX_RESERVES == 50
\* the delay between queue_set_reserve and set_reserve, in seconds
WEEK == 604800

\* the request types submit accepts in this model
Supply == 0
Withdraw == 1
SupplyCollateral == 2
WithdrawCollateral == 3
Borrow == 4
RepayRequest == 5
FillUserLiquidationAuction == 6
DeleteLiquidationAuction == 9

UserLiquidation == 0
BadDebtAuction == 1
InterestAuction == 2

(* ------------------------------- bounds -------------------------------- *)

MaxAmount == 2
MaxScaleAmount == 200
MaxAuctions == 1

(* ------------------------------ addresses ------------------------------ *)

samwise == "samwise"
frodo == "frodo"
backstop == "backstop"
\* the admin of the pool
bombadil == "bombadil"
\* the address of the pool contract itself
pool_address == "pool_address"
Users == {samwise, frodo, backstop, pool_address}

underlying_0 == "underlying_0"
underlying_1 == "underlying_1"
underlying_2 == "underlying_2"
lp_token == "lp_token"
Reserves == {underlying_0, underlying_1, underlying_2}

VARIABLES
    sequence,   \* e.ledger().sequence()
    auctions,   \* temporary storage: AuctionKey -> AuctionData with its TTL
    positions,  \* persistent storage: user -> Positions
    reserves,   \* persistent storage: asset -> the reserve's token supplies
    balances,   \* the token contracts: holder -> asset -> balance
    pool,       \* instance and reserve storage: admin, config, reserve list
    ret         \* outcome of the last contract call

vars == <<sequence, auctions, positions, reserves, balances, pool, ret>>

(* -------------------------------- maps --------------------------------- *)

EmptyMap == [k \in {} |-> 0]

MapGet(m, k) == IF k \in DOMAIN m THEN m[k] ELSE 0

\* Map::set, with the position store's rule that a zero entry is removed
\* faulty variant: an amount of zero is stored like any other
MapPut_keep_zero(m, k, v) == [x \in DOMAIN m \cup {k} |-> IF x = k THEN v ELSE m[x]]

MapPut(m, k, v) ==
    IF v = 0 THEN [x \in DOMAIN m \ {k} |-> m[x]]
    ELSE [x \in DOMAIN m \cup {k} |-> IF x = k THEN v ELSE m[x]]

(* ----------------------- fixed-point arithmetic ------------------------ *)

\* The contract multiplies in i128. Quotient and remainder of x * y by d are
\* built from the base-64 digits of y, so that no intermediate value leaves
\* 32 bits: x * y = q * d + r with 0 <= r < d, for x >= 0, y >= 0 and
\* 0 < d <= 10^7.
RECURSIVE mul_div_rem(_, _, _)
mul_div_rem(x, y, d) ==
    IF y = 0 THEN [q |-> 0, r |-> 0]
    ELSE LET h == mul_div_rem(x, y \div 64, d)
             q2 == 64 * h.q + (y % 64) * (x \div d)
             r2 == 64 * h.r + (y % 64) * (x % d)
         IN  [q |-> q2 + r2 \div d, r |-> r2 % d]

\* x * y / denominator, rounded towards minus infinity (x >= 0)
fixed_mul_floor(x, y, denominator) ==
    IF y >= 0 THEN mul_div_rem(x, y, denominator).q
    ELSE LET n == mul_div_rem(x, 0 - y, denominator)
         IN  0 - (n.q + (IF n.r > 0 THEN 1 ELSE 0))

\* x * y / denominator, rounded towards plus infinity (x >= 0)
fixed_mul_ceil(x, y, denominator) ==
    IF y >= 0
    THEN LET n == mul_div_rem(x, y, denominator)
         IN  n.q + (IF n.r > 0 THEN 1 ELSE 0)
    ELSE 0 - mul_div_rem(x, 0 - y, denominator).q

(* ------------------------- token rates, 12 decimals -------------------- *)

\* A b_rate or d_rate has 12 decimals, and 10^12 is wider than the 32 bits
\* of the checker's integers: a rate is held as two limbs of 6 decimals,
\* rate = hi * 10^6 + lo with 0 <= lo < 10^6.
LIMB == 1000000

\* the rate 1.000000000000, that is SCALAR_12
RateOne == [hi |-> LIMB, lo |-> 0]

\* x * rate / 10^12 rounded down, for 0 <= x and x * rate.hi < 2^31
rate_mul_floor(x, rate) ==
    (x * rate.hi + (x * rate.lo) \div LIMB) \div LIMB

\* x * rate / 10^12 rounded up
rate_mul_ceil(x, rate) ==
    (x * rate.hi + ((x * rate.lo) + LIMB - 1) \div LIMB + LIMB - 1) \div LIMB

\* q * rate <= u * 10^12, compared limb by limb
RateFits(q, rate, u) ==
    q * rate.hi + ((q * rate.lo) + LIMB - 1) \div LIMB <= u * LIMB

\* q * rate >= u * 10^12
RateCovers(q, rate, u) ==
    q * rate.hi + (q * rate.lo) \div LIMB >= u * LIMB

\* u * 10^12 / rate rounded up, for a rate of at least 1: the least q whose
\* value covers u
rate_div_ceil(u, rate) ==
    CHOOSE q \in 0..u :
        /\ RateCovers(q, rate, u)
        /\ \A p \in 0..(q - 1) : ~RateCovers(p, rate, u)

\* u * 10^12 / rate rounded down, for a rate of at least 1: the greatest q
\* whose value fits in u
rate_div_floor(u, rate) ==
    CHOOSE q \in 0..u :
        /\ RateFits(q, rate, u)
        /\ \A p \in (q + 1)..u : ~RateFits(p, rate, u)

\* the conversions as the spec writes them: to_underlying(t) = t * rate / S12
to_underlying(tokens, rate) == rate_mul_floor(tokens, rate)

\* faulty variant: the token amount is rounded up
from_underlying_up(amount, rate) == rate_div_ceil(amount, rate)

\* from_underlying(u) = u * S12 / rate
from_underlying(amount, rate) == rate_div_floor(amount, rate)

\* the conversions by the direction each caller rounds in
to_asset_from_b_token(b_rate, b_tokens) == rate_mul_floor(b_tokens, b_rate)
to_asset_from_d_token(d_rate, d_tokens) == rate_mul_ceil(d_tokens, d_rate)
to_b_token_up(b_rate, amount) == rate_div_ceil(amount, b_rate)
\* faulty variant: a supply mints the b tokens rounded up
to_b_token_down_rounding_up(b_rate, amount) == rate_div_ceil(amount, b_rate)
to_b_token_down(b_rate, amount) == rate_div_floor(amount, b_rate)
to_d_token_up(d_rate, amount) == rate_div_ceil(amount, d_rate)
to_d_token_down(d_rate, amount) == rate_div_floor(amount, d_rate)

(* ------------------------- temporary storage --------------------------- *)

AuctionKey(auction_type, user) == <<auction_type, user>>

has_auction(store, auction_type, user) ==
    AuctionKey(auction_type, user) \in DOMAIN store

get_auction(store, auction_type, user) ==
    store[AuctionKey(auction_type, user)].data

\* extend_ttl(key, threshold, extend_to) of the host: an entry whose
\* remaining lifetime is at most `threshold` ledgers lives until
\* sequence + extend_to; a longer-lived entry is left alone.  A freshly
\* written temporary entry starts with the host's minimum lifetime, which is
\* below the threshold.
\* faulty variant: only a fresh entry has its lifetime extended
extend_ttl_fresh_only(store, seq, key, threshold, extend_to) ==
    IF key \in DOMAIN store THEN store[key].live_until
    ELSE seq + extend_to

extend_ttl(store, seq, key, threshold, extend_to) ==
    IF key \in DOMAIN store /\ store[key].live_until - seq > threshold
    THEN store[key].live_until
    ELSE seq + extend_to

\* faulty variant: the stored auction restarts at the current block
set_auction_new_block(store, seq, auction_type, user, auction_data) ==
    LET key == AuctionKey(auction_type, user)
        live == extend_ttl(store, seq, key, LEDGER_THRESHOLD_SHARED,
                           LEDGER_BUMP_SHARED)
    IN [k \in DOMAIN store \cup {key} |->
            IF k = key
            THEN [data |-> [auction_data EXCEPT !.block = seq],
                  live_until |-> live]
            ELSE store[k]]

set_auction(store, seq, auction_type, user, auction_data) ==
    LET key == AuctionKey(auction_type, user)
        live == extend_ttl(store, seq, key, LEDGER_THRESHOLD_SHARED,
                           LEDGER_BUMP_SHARED)
    IN [k \in DOMAIN store \cup {key} |->
            IF k = key THEN [data |-> auction_data, live_until |-> live]
            ELSE store[k]]

\* faulty variant: every auction of the user goes, whatever its type
del_auction_all_types(store, auction_type, user) ==
    [k \in {x \in DOMAIN store : x[2] # user} |-> store[k]]

del_auction(store, auction_type, user) ==
    [k \in DOMAIN store \ {AuctionKey(auction_type, user)} |-> store[k]]

\* the host drops a temporary entry once the ledger passes its live_until
expire(store, seq) ==
    [k \in {x \in DOMAIN store : store[x].live_until >= seq} |-> store[k]]

(* --------------------------- scale_auction ----------------------------- *)

NoAuctionData == [bid |-> EmptyMap, lot |-> EmptyMap, block |-> 0]

\* faulty variant: the lot keeps growing past 200 blocks
lot_modifier_uncapped(block_dif) == block_dif * per_block_scalar

lot_modifier(block_dif) ==
    IF block_dif > 200 THEN SCALAR_7
    ELSE block_dif * per_block_scalar

\* faulty variant: the bid decays from the first block on
bid_modifier_from_start(block_dif) ==
    IF block_dif > 200
    THEN IF block_dif < 400
         THEN SCALAR_7 - block_dif * per_block_scalar
         ELSE 0
    ELSE SCALAR_7

\* faulty variant: the bid never falls below one step
bid_modifier_never_zero(block_dif) ==
    IF block_dif > 200
    THEN IF block_dif < 400
         THEN SCALAR_7 - (block_dif - 200) * per_block_scalar
         ELSE per_block_scalar
    ELSE SCALAR_7

bid_modifier(block_dif) ==
    IF block_dif > 200
    THEN IF block_dif < 400
         THEN SCALAR_7 - (block_dif - 200) * per_block_scalar
         ELSE 0
    ELSE SCALAR_7

\* faulty variant: the bid share rounds down
bid_to_fill_base_floor(amount, percent_filled) ==
    fixed_mul_floor(amount, percent_filled * 100000, SCALAR_7)

\* the share of a bid entry taken out of the base auction (rounds up)
bid_to_fill_base(amount, percent_filled) ==
    fixed_mul_ceil(amount, percent_filled * 100000, SCALAR_7)

\* faulty variant: the lot share rounds up
lot_to_fill_base_ceil(amount, percent_filled) ==
    fixed_mul_ceil(amount, percent_filled * 100000, SCALAR_7)

\* the share of a lot entry taken out of the base auction (rounds down)
lot_to_fill_base(amount, percent_filled) ==
    fixed_mul_floor(amount, percent_filled * 100000, SCALAR_7)

\* faulty variant: the scaled bid rounds down
bid_to_fill_scaled_floor(to_fill_base, modifier) ==
    fixed_mul_floor(to_fill_base, modifier, SCALAR_7)

bid_to_fill_scaled(to_fill_base, modifier) ==
    fixed_mul_ceil(to_fill_base, modifier, SCALAR_7)

\* faulty variant: the lot share is paid out whole at every block
lot_to_fill_scaled_whole(to_fill_base, modifier) ==
    to_fill_base

\* faulty variant: the scaled lot rounds up
lot_to_fill_scaled_ceil(to_fill_base, modifier) == fixed_mul_ceil(to_fill_base, modifier, SCALAR_7)

lot_to_fill_scaled(to_fill_base, modifier) ==
    fixed_mul_floor(to_fill_base, modifier, SCALAR_7)

\* faulty variant: the filled share is not taken off the entry
remaining_base_whole(amount, to_fill_base) == amount

\* what stays in the base auction of an entry
remaining_base(amount, to_fill_base) == amount - to_fill_base

\* an entry is set in the resulting map only when it is > 0
\* faulty variant: entries scaled to zero are kept
AllEntries(m) == m

PositiveEntries(m) ==
    [a \in {x \in DOMAIN m : m[x] > 0} |-> m[a]]

\* faulty variant: a percent of 0 is let through
percent_out_of_range_no_zero(percent_filled) ==
    percent_filled > 100

\* the guard scale_auction opens with
percent_out_of_range(percent_filled) ==
    percent_filled > 100 \/ percent_filled = 0

scale_auction(auction_data, percent_filled, seq) ==
    LET block_dif == seq - auction_data.block
        bid_mod == bid_modifier(block_dif)
        lot_mod == lot_modifier(block_dif)
        bid_rem == [a \in DOMAIN auction_data.bid |->
            remaining_base(auction_data.bid[a],
                bid_to_fill_base(auction_data.bid[a], percent_filled))]
        bid_fill == [a \in DOMAIN auction_data.bid |->
            bid_to_fill_scaled(
                bid_to_fill_base(auction_data.bid[a], percent_filled), bid_mod)]
        lot_rem == [a \in DOMAIN auction_data.lot |->
            remaining_base(auction_data.lot[a],
                lot_to_fill_base(auction_data.lot[a], percent_filled))]
        lot_fill == [a \in DOMAIN auction_data.lot |->
            lot_to_fill_scaled(
                lot_to_fill_base(auction_data.lot[a], percent_filled), lot_mod)]
        to_fill_auction ==
            [bid |-> PositiveEntries(bid_fill),
             lot |-> PositiveEntries(lot_fill),
             block |-> auction_data.block]
        remaining_auction ==
            [bid |-> PositiveEntries(bid_rem),
             lot |-> PositiveEntries(lot_rem),
             block |-> auction_data.block]
    IN  IF percent_out_of_range(percent_filled)
        THEN [err |-> BadRequest, to_fill |-> NoAuctionData,
              remaining |-> NoAuctionData, is_some |-> FALSE,
              bid_mod |-> 0, lot_mod |-> 0]
        ELSE IF block_dif < 0
        THEN [err |-> HostTrap, to_fill |-> NoAuctionData,
              remaining |-> NoAuctionData, is_some |-> FALSE,
              bid_mod |-> 0, lot_mod |-> 0]
        ELSE [err |-> 0, to_fill |-> to_fill_auction,
              remaining |-> remaining_auction,
              is_some |-> ~(DOMAIN remaining_auction.lot = {}
                            /\ DOMAIN remaining_auction.bid = {}),
              bid_mod |-> bid_mod, lot_mod |-> lot_mod]

(* ------------------------ settlement of a fill ------------------------- *)

EmptyPositions ==
    [collateral |-> EmptyMap, liabilities |-> EmptyMap, supply |-> EmptyMap]

\* move `amounts` of one side (collateral or liabilities) from one user to
\* another; an entry the source cannot cover is left in place
move_side(side_from, side_to, amounts) ==
    LET ok(a) == MapGet(side_from, a) >= amounts[a]
        moved == {a \in DOMAIN amounts : ok(a)}
    IN [err |-> IF moved = DOMAIN amounts THEN 0 ELSE BalanceError,
        from |-> [a \in {x \in DOMAIN side_from :
                            x \notin moved \/ side_from[x] - amounts[x] > 0} |->
                    IF a \in moved THEN side_from[a] - amounts[a]
                    ELSE side_from[a]],
        to |-> [a \in DOMAIN side_to \cup moved |->
                    IF a \in moved THEN MapGet(side_to, a) + amounts[a]
                    ELSE side_to[a]]]

\* the liquidated user's lot leaves its collateral and its bid leaves its
\* liabilities; the filler takes both on.  After a full fill a user left with
\* liabilities and no collateral hands the liabilities to the backstop.
fill_user_liq_auction(pos, auction_data, user, filler, is_full_fill) ==
    LET lot == move_side(pos[user].collateral, pos[filler].collateral,
                         auction_data.lot)
        bid == move_side(pos[user].liabilities, pos[filler].liabilities,
                         auction_data.bid)
        bad_debt == /\ is_full_fill
                    /\ DOMAIN lot.from = {}
                    /\ DOMAIN bid.from # {}
                    /\ user # backstop
        to_backstop == move_side(bid.from, pos[backstop].liabilities, bid.from)
        moved == [pos EXCEPT
                    ![user] = [@ EXCEPT !.collateral = lot.from,
                                        !.liabilities = bid.from],
                    ![filler] = [@ EXCEPT !.collateral = lot.to,
                                          !.liabilities = bid.to]]
    IN [err |-> IF lot.err # 0 THEN lot.err ELSE bid.err,
        positions |->
            IF lot.err # 0
            THEN pos
            ELSE IF bid.err = 0 /\ bad_debt /\ filler # backstop
            THEN [moved EXCEPT
                    ![user] = [@ EXCEPT !.liabilities = EmptyMap],
                    ![backstop] = [@ EXCEPT !.liabilities = to_backstop.to]]
            ELSE moved]

\* the filler takes the backstop's liabilities on (bid); the lot is drawn
\* from the backstop module to the filler by a call to that contract
fill_bad_debt_auction(pos, auction_data, filler, is_full_fill, ext_ok) ==
    LET bid == move_side(pos[backstop].liabilities, pos[filler].liabilities,
                         auction_data.bid)
        moved == [pos EXCEPT
                    ![backstop] = [@ EXCEPT !.liabilities = bid.from],
                    ![filler] = [@ EXCEPT !.liabilities = bid.to]]
    IN [err |-> IF bid.err # 0 THEN bid.err
                ELSE IF ext_ok THEN 0 ELSE HostTrap,
        positions |-> moved]

\* the bid is a transfer of backstop tokens from the filler and the lot a
\* transfer of underlying to the filler: calls to token contracts only
fill_interest_auction(pos, auction_data, filler, ext_ok) ==
    [err |-> IF ext_ok THEN 0 ELSE HostTrap, positions |-> pos]

(* -------------------------------- fill --------------------------------- *)

\* faulty variant: the filler is compared with the subject only after the
\* auction was read and the percent validated
fill_entry_err_late_check(store, seq, auction_type, user, filler, percent_filled) ==
    IF ~has_auction(store, auction_type, user) THEN HostTrap
    ELSE IF scale_auction(get_auction(store, auction_type, user),
                          percent_filled, seq).err # 0
    THEN scale_auction(get_auction(store, auction_type, user),
                       percent_filled, seq).err
    ELSE IF user = filler THEN InvalidLiquidation
    ELSE 0

\* the panic fill ends with before it settles anything, 0 if none: the
\* filler is the subject, no auction is stored, the percent is rejected
fill_entry_err(store, seq, auction_type, user, filler, percent_filled) ==
    IF user = filler THEN InvalidLiquidation
    ELSE IF ~has_auction(store, auction_type, user) THEN HostTrap
    ELSE scale_auction(get_auction(store, auction_type, user),
                       percent_filled, seq).err

\* The working state of one invocation: `err` is 0 while the invocation runs
\* and the error it panicked with otherwise.
fill(store, pos, seq, auction_type, user, filler, percent_filled, ext_ok) ==
    LET none == [err |-> 0, auctions |-> store, positions |-> pos,
                 to_fill |-> NoAuctionData, before |-> NoAuctionData,
                 bid_mod |-> 0, lot_mod |-> 0]
        entry_err == fill_entry_err(store, seq, auction_type, user, filler,
                                    percent_filled)
        found == has_auction(store, auction_type, user)
        auction_data == get_auction(store, auction_type, user)
        scaled == scale_auction(auction_data, percent_filled, seq)
        is_full_fill == ~scaled.is_some
        settled ==
            CASE auction_type = UserLiquidation ->
                    fill_user_liq_auction(pos, scaled.to_fill, user, filler,
                                          is_full_fill)
              [] auction_type = BadDebtAuction ->
                    fill_bad_debt_auction(pos, scaled.to_fill, filler,
                                          is_full_fill, ext_ok)
              [] auction_type = InterestAuction ->
                    fill_interest_auction(pos, scaled.to_fill, filler, ext_ok)
              [] OTHER -> [err |-> BadRequest, positions |-> pos]
        seen == IF found THEN [none EXCEPT !.before = auction_data] ELSE none
    IN  IF entry_err # 0
        THEN [seen EXCEPT !.err = entry_err]
        ELSE IF settled.err # 0
        THEN [seen EXCEPT !.err = settled.err,
                          !.bid_mod = scaled.bid_mod,
                          !.lot_mod = scaled.lot_mod,
                          !.positions = settled.positions]
        ELSE [seen EXCEPT
                !.bid_mod = scaled.bid_mod,
                !.lot_mod = scaled.lot_mod,
                !.positions = settled.positions,
                !.to_fill = scaled.to_fill,
                !.auctions =
                    IF scaled.is_some
                    THEN set_auction(store, seq, auction_type, user,
                                     scaled.remaining)
                    ELSE del_auction(store, auction_type, user)]

\* faulty variant: the writes made before a panic are kept
Commit_keep(err, before, after) == after

\* a panic reverts every write of the invocation
Commit(err, before, after) == IF err = 0 THEN after ELSE before

(* ------------------------- creation of auctions ------------------------ *)

\* faulty variant: only neighbouring addresses are compared
require_unique_addresses_adjacent(list) ==
    \A i \in 1..Len(list) : i < Len(list) => list[i] # list[i + 1]

\* Require that all addresses in the list are unique
require_unique_addresses(list) ==
    \A i, j \in 1..Len(list) : list[i] = list[j] => i = j

AuctionType_from_u32_ok(value) ==
    value \in {UserLiquidation, BadDebtAuction, InterestAuction}

ListSet(list) == {list[i] : i \in 1..Len(list)}

\* the auction data the three creators produce for (user, bid, lot), starting
\* at the current ledger sequence.  The amounts depend on oracle prices and
\* reserve rates; here a liquidation takes `percent` of each listed position
\* (bid rounded up, lot rounded down, at least 1), a bad-debt auction bids
\* the backstop's whole liabilities, and the backstop-token and
\* backstop-credit amounts are 1 (dust).
created_auction_data(pos, seq, auction_type, user, bid, lot, percent) ==
    LET share_up(m, assets) ==
            [a \in assets |-> fixed_mul_ceil(m[a], percent, 100)]
        share_down(m, assets) ==
            [a \in assets |->
                IF fixed_mul_floor(m[a], percent, 100) = 0 THEN 1
                ELSE fixed_mul_floor(m[a], percent, 100)]
        flat(assets) == [a \in assets |-> 1]
    IN  CASE auction_type = UserLiquidation ->
                [bid |-> share_up(pos[user].liabilities, ListSet(bid)),
                 lot |-> share_down(pos[user].collateral, ListSet(lot)),
                 block |-> seq]
          [] auction_type = BadDebtAuction ->
                [bid |-> pos[backstop].liabilities, lot |-> flat(ListSet(lot)),
                 block |-> seq]
          [] OTHER ->
                [bid |-> flat(ListSet(bid)), lot |-> flat(ListSet(lot)),
                 block |-> seq]

\* faulty variant: a stored auction for the (type, user) is not looked for
create_auction_data_err_overwrite(store, pos, auction_type, user, bid, lot, percent) ==
    IF auction_type = UserLiquidation
            /\ (user = backstop \/ user = pool_address)
    THEN InvalidLiquidation
    ELSE IF auction_type # UserLiquidation /\ user # backstop
    THEN BadRequest
    ELSE IF percent = 0 \/ percent > 100
    THEN BadRequest
    ELSE IF auction_type = UserLiquidation
            /\ (bid = <<>> \/ lot = <<>>
                \/ ~(ListSet(bid) \subseteq DOMAIN pos[user].liabilities)
                \/ ~(ListSet(lot) \subseteq DOMAIN pos[user].collateral))
    THEN InvalidLiquidation
    ELSE IF auction_type = BadDebtAuction
            /\ (DOMAIN pos[backstop].liabilities = {}
                \/ DOMAIN pos[backstop].collateral # {}
                \/ ListSet(bid) # DOMAIN pos[backstop].liabilities
                \/ lot # <<lp_token>>)
    THEN BadRequest
    ELSE IF auction_type = InterestAuction
            /\ (bid # <<lp_token>> \/ lot = <<>>
                \/ ~(ListSet(lot) \subseteq Reserves))
    THEN BadRequest
    ELSE 0

\* faulty variant: the subject of a liquidation is not compared with the pool
\* and the backstop
create_auction_data_err_any_subject(store, pos, auction_type, user, bid, lot, percent) ==
    IF auction_type # UserLiquidation /\ user # backstop
    THEN BadRequest
    ELSE IF has_auction(store, auction_type, user)
    THEN AuctionInProgress
    ELSE IF percent = 0 \/ percent > 100
    THEN BadRequest
    ELSE IF auction_type = UserLiquidation
            /\ (bid = <<>> \/ lot = <<>>
                \/ ~(ListSet(bid) \subseteq DOMAIN pos[user].liabilities)
                \/ ~(ListSet(lot) \subseteq DOMAIN pos[user].collateral))
    THEN InvalidLiquidation
    ELSE IF auction_type = BadDebtAuction
            /\ (DOMAIN pos[backstop].liabilities = {}
                \/ DOMAIN pos[backstop].collateral # {}
                \/ ListSet(bid) # DOMAIN pos[backstop].liabilities
                \/ lot # <<lp_token>>)
    THEN BadRequest
    ELSE IF auction_type = InterestAuction
            /\ (bid # <<lp_token>> \/ lot = <<>>
                \/ ~(ListSet(lot) \subseteq Reserves))
    THEN BadRequest
    ELSE 0

\* the variant-specific validation of (user, bid, lot, percent)
create_auction_data_err(store, pos, auction_type, user, bid, lot, percent) ==
    IF auction_type = UserLiquidation
            /\ (user = backstop \/ user = pool_address)
    THEN InvalidLiquidation
    ELSE IF auction_type # UserLiquidation /\ user # backstop
    THEN BadRequest
    ELSE IF has_auction(store, auction_type, user)
    THEN AuctionInProgress
    ELSE IF percent = 0 \/ percent > 100
    THEN BadRequest
    ELSE IF auction_type = UserLiquidation
            /\ (bid = <<>> \/ lot = <<>>
                \/ ~(ListSet(bid) \subseteq DOMAIN pos[user].liabilities)
                \/ ~(ListSet(lot) \subseteq DOMAIN pos[user].collateral))
    THEN InvalidLiquidation
    ELSE IF auction_type = BadDebtAuction
            /\ (DOMAIN pos[backstop].liabilities = {}
                \/ DOMAIN pos[backstop].collateral # {}
                \/ ListSet(bid) # DOMAIN pos[backstop].liabilities
                \/ lot # <<lp_token>>)
    THEN BadRequest
    ELSE IF auction_type = InterestAuction
            /\ (bid # <<lp_token>> \/ lot = <<>>
                \/ ~(ListSet(lot) \subseteq Reserves))
    THEN BadRequest
    ELSE 0

create_auction_err(store, pos, auction_type, user, bid, lot, percent) ==
    IF ~require_unique_addresses(bid) THEN BadRequest
    ELSE IF ~require_unique_addresses(lot) THEN BadRequest
    ELSE IF ~AuctionType_from_u32_ok(auction_type) THEN BadRequest
    ELSE create_auction_data_err(store, pos, auction_type, user, bid, lot,
                                 percent)

(* ------------------------------ the state ------------------------------ *)

NoCall ==
    [op |-> "none", err |-> 0, auction_type |-> 0, user |-> "", filler |-> "",
     percent |-> 0, before |-> NoAuctionData, bid_mod |-> 0, lot_mod |-> 0,
     to_fill |-> NoAuctionData, bid |-> <<>>, lot |-> <<>>,
     spender |-> "", to |-> "", auths |-> {}, requests |-> <<>>,
     applied |-> 0, pool_transfer |-> EmptyMap, spender_transfer |-> EmptyMap,
     asset |-> "", index |-> 0, new_admin |-> "",
     side |-> "", amount |-> 0, rate |-> RateOne, tokens |-> 0,
     underlying |-> 0, result |-> 0, status |-> 0, q4w_pct |-> 0,
     met_threshold |-> FALSE]

\* positions users hold when the auctions of this model begin: samwise has
\* borrowed against collateral, the backstop carries bad debt
InitialPositions ==
    [u \in Users |->
        CASE u \in {samwise, pool_address} ->
                [collateral |-> (underlying_0 :> MaxAmount),
                 liabilities |-> (underlying_2 :> MaxAmount),
                 supply |-> EmptyMap]
          [] u = backstop ->
                [EmptyPositions EXCEPT !.liabilities = (underlying_2 :> 1)]
          [] OTHER -> EmptyPositions]

\* what each reserve has issued when the auctions of this model begin: the
\* collateral and the liabilities of the positions above
InitialReserves ==
    [a \in Reserves |->
        [b_supply |-> IF a = underlying_0 THEN 2 * MaxAmount ELSE 0,
         d_supply |-> IF a = underlying_2 THEN 2 * MaxAmount + 1 ELSE 0,
         b_rate |-> RateOne,
         d_rate |-> RateOne,
         backstop_credit |-> 0]]

\* the tokens the pool and the users hold
InitialBalances ==
    [u \in Users |->
        [a \in Reserves |->
            CASE u = pool_address -> IF a = underlying_2 THEN 1 ELSE MaxAmount
              [] u \in {samwise, frodo} -> 1
              [] OTHER -> 0]]

\* the pool as the tests set it up: bombadil is the admin, three reserves are
\* listed in order, nothing is queued
InitialPool ==
    [admin |-> bombadil,
     config |-> [bstop_rate |-> 1000000, status |-> 0, max_positions |-> 4],
     res_list |-> <<underlying_0, underlying_1, underlying_2>>,
     res_config |-> (underlying_0 :> [index |-> 0, c_factor |-> 1, l_factor |-> 1])
                    @@ (underlying_1 :> [index |-> 1, c_factor |-> 1, l_factor |-> 1])
                    @@ (underlying_2 :> [index |-> 2, c_factor |-> 1, l_factor |-> 1]),
     res_init |-> EmptyMap,
     emis_config |-> <<>>]

Init ==
    /\ sequence = 0
    /\ auctions = EmptyMap
    /\ positions = InitialPositions
    /\ reserves = InitialReserves
    /\ balances = InitialBalances
    /\ pool = InitialPool
    /\ ret = NoCall

(* ------------------------------ the ledger ----------------------------- *)

LedgerPoints ==
    {0, 200, 500, 501,
     LEDGER_BUMP_SHARED, LEDGER_BUMP_SHARED + 1}

\* the ledger closes and a later one opens; expired temporary entries go
Advance(s) ==
    /\ ret.op = "none"
    /\ s > sequence
    /\ sequence' = s
    /\ auctions' = expire(auctions, s)
    /\ ret' = NoCall
    /\ UNCHANGED <<positions, reserves, balances, pool>>

(* ----------------------------- operations ------------------------------ *)

CreateAuctionCall(auction_type, user, bid, lot, percent) ==
    LET err == create_auction_err(auctions, positions, auction_type, user,
                                  bid, lot, percent)
        auction_data == created_auction_data(positions, sequence, auction_type,
                                             user, bid, lot, percent)
    IN  /\ ret.op = "none"
        /\ auctions' = IF err = 0
                       THEN set_auction(auctions, sequence, auction_type,
                                        user, auction_data)
                       ELSE auctions
        /\ ret' = [NoCall EXCEPT !.op = "create_auction", !.err = err,
                                 !.auction_type = auction_type, !.user = user,
                                 !.percent = percent,
                                 !.bid = bid, !.lot = lot]
        /\ UNCHANGED <<sequence, positions, reserves, balances, pool>>

\* create_auction while fewer than MaxAuctions auctions are stored, or for a
\* key that has one
CreateAuction(auction_type, user, bid, lot, percent) ==
    /\ \/ Cardinality(DOMAIN auctions) < MaxAuctions
       \/ AuctionKey(auction_type, user) \in DOMAIN auctions
    /\ CreateAuctionCall(auction_type, user, bid, lot, percent)

Fill(auction_type, user, filler, percent_filled, ext_ok) ==
    /\ ret.op = "none"
    /\ \E out \in {fill(auctions, positions, sequence, auction_type, user,
                        filler, percent_filled, ext_ok)} :
        /\ auctions' = Commit(out.err, auctions, out.auctions)
        /\ positions' = Commit(out.err, positions, out.positions)
        /\ ret' = [NoCall EXCEPT
                     !.op = "fill", !.err = out.err,
                     !.auction_type = auction_type, !.user = user,
                     !.filler = filler, !.percent = percent_filled,
                     !.before = out.before, !.bid_mod = out.bid_mod,
                     !.lot_mod = out.lot_mod, !.to_fill = out.to_fill]
    /\ UNCHANGED <<sequence, reserves, balances, pool>>

\* faulty variant: an auction exactly 500 blocks old is not yet stale
delete_stale_auction_err_strict(store, seq, auction_type, user) ==
    IF ~has_auction(store, auction_type, user) THEN BadRequest
    ELSE IF get_auction(store, auction_type, user).block + 500 >= seq
    THEN BadRequest
    ELSE 0

\* Delete an auction if it is stale
delete_stale_auction_err(store, seq, auction_type, user) ==
    IF ~has_auction(store, auction_type, user) THEN BadRequest
    ELSE IF get_auction(store, auction_type, user).block + 500 > seq
    THEN BadRequest
    ELSE 0

DeleteStaleAuction(auction_type, user) ==
    LET err == delete_stale_auction_err(auctions, sequence, auction_type, user)
    IN  /\ ret.op = "none"
        /\ auctions' = Commit(err, auctions,
                              del_auction(auctions, auction_type, user))
        /\ ret' = [NoCall EXCEPT
                     !.op = "delete_stale_auction", !.err = err,
                     !.auction_type = auction_type, !.user = user,
                     !.before = IF has_auction(auctions, auction_type, user)
                                THEN get_auction(auctions, auction_type, user)
                                ELSE NoAuctionData]
        /\ UNCHANGED <<sequence, positions, reserves, balances, pool>>

\* faulty variant: an auction of any type stored for the user is accepted
delete_liquidation_err_any_type(store, user) ==
    IF \A k \in DOMAIN store : k[2] # user THEN BadRequest ELSE 0

delete_liquidation_err(store, user) ==
    IF ~has_auction(store, UserLiquidation, user) THEN BadRequest ELSE 0

DeleteLiquidation(user) ==
    LET err == delete_liquidation_err(auctions, user)
    IN  /\ ret.op = "none"
        /\ auctions' = Commit(err, auctions,
                              del_auction(auctions, UserLiquidation, user))
        /\ ret' = [NoCall EXCEPT
                     !.op = "delete_liquidation", !.err = err,
                     !.auction_type = UserLiquidation, !.user = user,
                     !.before = IF has_auction(auctions, UserLiquidation, user)
                                THEN get_auction(auctions, UserLiquidation, user)
                                ELSE NoAuctionData]
        /\ UNCHANGED <<sequence, positions, reserves, balances, pool>>

\* a Repay request: the user's liability falls by `amount` dTokens, a request
\* for more than the debt repays the whole debt
Repay(user, asset, amount) ==
    LET debt == MapGet(positions[user].liabilities, asset)
        paid == IF amount > debt THEN debt ELSE amount
    IN  /\ ret.op = "none"
        /\ debt > 0
        /\ positions' = [positions EXCEPT ![user].liabilities =
                            MapPut(@, asset, debt - paid)]
        /\ ret' = [NoCall EXCEPT !.op = "repay", !.user = user]
        /\ UNCHANGED <<sequence, auctions, reserves, balances, pool>>

\* the invocation ends: its result has been handed to the caller
Return ==
    /\ ret.op # "none"
    /\ ret' = NoCall
    /\ UNCHANGED <<sequence, auctions, positions, reserves, balances, pool>>

(* -------------------------------- submit ------------------------------- *)

MapAdd(m, k, v) == MapPut(m, k, MapGet(m, k) + v)

\* the element of a one-element set
Only(S) == CHOOSE x \in S : TRUE

\* the value of one side of a user's positions, every asset priced at 1
SideTotal(m) ==
    MapGet(m, underlying_0) + MapGet(m, underlying_1) + MapGet(m, underlying_2)

\* the underlying the collateral of a user is worth, every asset priced at 1
CollateralValue(res, user_positions) ==
    SideTotal([a \in DOMAIN user_positions.collateral |->
                 to_asset_from_b_token(res[a].b_rate,
                                       user_positions.collateral[a])])

\* the underlying a user owes
LiabilityValue(res, user_positions) ==
    SideTotal([a \in DOMAIN user_positions.liabilities |->
                 to_asset_from_d_token(res[a].d_rate,
                                       user_positions.liabilities[a])])

\* the effective number of positions: every liability, and every reserve
\* held as collateral or as supply, counted once
effective_count(user_positions) ==
    Cardinality(DOMAIN user_positions.liabilities)
        + Cardinality(DOMAIN user_positions.collateral
                        \cup DOMAIN user_positions.supply)

\* b tokens leave one side of the positions on a withdrawal of `amount`
\* underlying: the tokens to burn are rounded up, and a request for more
\* than the balance is worth burns the whole balance for what it is worth
burn_b_tokens(b_rate, cur, amount) ==
    IF amount > to_asset_from_b_token(b_rate, cur)
    THEN [tokens |-> cur, underlying |-> to_asset_from_b_token(b_rate, cur)]
    ELSE [tokens |-> to_b_token_up(b_rate, amount), underlying |-> amount]

\* faulty variant: a repayment takes the whole amount of the request
burn_d_tokens_whole_amount(d_rate, debt, amount) ==
    IF amount > to_asset_from_d_token(d_rate, debt)
    THEN [tokens |-> debt, underlying |-> amount]
    ELSE [tokens |-> to_d_token_down(d_rate, amount), underlying |-> amount]

\* d tokens are repaid with `amount` underlying: the tokens burnt are rounded
\* down, and a payment of more than the debt burns the whole debt and takes
\* only its value
burn_d_tokens(d_rate, debt, amount) ==
    IF amount > to_asset_from_d_token(d_rate, debt)
    THEN [tokens |-> debt, underlying |-> to_asset_from_d_token(d_rate, debt)]
    ELSE [tokens |-> to_d_token_down(d_rate, amount), underlying |-> amount]

\* faulty variant: b tokens supplied to a reserve held as collateral join the
\* collateral
add_supply_merged(user_positions, a, b_tokens) ==
    IF a \in DOMAIN user_positions.collateral
    THEN [user_positions EXCEPT !.collateral = MapAdd(@, a, b_tokens)]
    ELSE [user_positions EXCEPT !.supply = MapAdd(@, a, b_tokens)]

\* b tokens join the supply of a user, whatever the user's collateral is
add_supply(user_positions, a, b_tokens) ==
    [user_positions EXCEPT !.supply = MapAdd(@, a, b_tokens)]

\* one request applied to the working state of the batch, before the count
\* of positions is looked at
mutate_positions(w, seq, from, request) ==
    LET rt == request.request_type
        a == request.address
        amount == request.amount
        pos == w.positions
        touched == [w EXCEPT !.applied = @ + 1]
    IN  CASE rt = Supply ->
                IF a \notin Reserves \/ amount <= 0
                THEN [w EXCEPT !.err = BadRequest]
                ELSE Only({[touched EXCEPT
                              !.positions[from] = add_supply(@, a, minted),
                              !.reserves[a].b_supply = @ + minted,
                              !.spender_transfer = MapAdd(@, a, amount)] :
                           minted \in {to_b_token_down(w.reserves[a].b_rate,
                                                       amount)}})
          [] rt = Withdraw ->
                IF a \notin Reserves \/ amount <= 0
                     \/ MapGet(pos[from].supply, a) = 0
                THEN [w EXCEPT !.err = BadRequest]
                ELSE Only({[touched EXCEPT
                              !.positions[from].supply =
                                  MapPut(@, a, MapGet(@, a) - burnt.tokens),
                              !.reserves[a].b_supply = @ - burnt.tokens,
                              !.pool_transfer =
                                  MapAdd(@, a, burnt.underlying)] :
                           burnt \in {burn_b_tokens(w.reserves[a].b_rate,
                                          MapGet(pos[from].supply, a),
                                          amount)}})
          [] rt = SupplyCollateral ->
                IF a \notin Reserves \/ amount <= 0
                THEN [w EXCEPT !.err = BadRequest]
                ELSE Only({[touched EXCEPT
                              !.positions[from].collateral =
                                  MapAdd(@, a, minted),
                              !.reserves[a].b_supply = @ + minted,
                              !.spender_transfer = MapAdd(@, a, amount)] :
                           minted \in {to_b_token_down(w.reserves[a].b_rate,
                                                       amount)}})
          [] rt = WithdrawCollateral ->
                IF a \notin Reserves \/ amount <= 0
                     \/ MapGet(pos[from].collateral, a) = 0
                THEN [w EXCEPT !.err = BadRequest]
                ELSE Only({[touched EXCEPT
                              !.positions[from].collateral =
                                  MapPut(@, a, MapGet(@, a) - burnt.tokens),
                              !.reserves[a].b_supply = @ - burnt.tokens,
                              !.pool_transfer =
                                  MapAdd(@, a, burnt.underlying),
                              !.check_health = TRUE] :
                           burnt \in {burn_b_tokens(w.reserves[a].b_rate,
                                          MapGet(pos[from].collateral, a),
                                          amount)}})
          [] rt = Borrow ->
                IF a \notin Reserves \/ amount <= 0
                THEN [w EXCEPT !.err = BadRequest]
                ELSE Only({[touched EXCEPT
                              !.positions[from].liabilities =
                                  MapAdd(@, a, minted),
                              !.reserves[a].d_supply = @ + minted,
                              !.pool_transfer = MapAdd(@, a, amount),
                              !.check_health = TRUE] :
                           minted \in {to_d_token_up(w.reserves[a].d_rate,
                                                     amount)}})
          [] rt = RepayRequest ->
                IF a \notin Reserves \/ amount <= 0
                     \/ MapGet(pos[from].liabilities, a) = 0
                THEN [w EXCEPT !.err = BadRequest]
                ELSE Only({[touched EXCEPT
                              !.positions[from].liabilities =
                                  MapPut(@, a, MapGet(@, a) - burnt.tokens),
                              !.reserves[a].d_supply = @ - burnt.tokens,
                              !.spender_transfer =
                                  MapAdd(@, a, burnt.underlying)] :
                           burnt \in {burn_d_tokens(w.reserves[a].d_rate,
                                          MapGet(pos[from].liabilities, a),
                                          amount)}})
          [] rt = FillUserLiquidationAuction ->
                Only({IF out.err # 0 THEN [w EXCEPT !.err = out.err]
                      ELSE [touched EXCEPT !.positions = out.positions,
                                           !.auctions = out.auctions,
                                           !.check_health = TRUE] :
                      out \in {fill(w.auctions, pos, seq, UserLiquidation, a,
                                    from, amount, TRUE)}})
          [] rt = DeleteLiquidationAuction ->
                IF delete_liquidation_err(w.auctions, from) # 0
                THEN [w EXCEPT !.err = delete_liquidation_err(w.auctions, from)]
                ELSE [touched EXCEPT
                        !.auctions = del_auction(@, UserLiquidation, from),
                        !.check_health = TRUE]
          [] OTHER -> [w EXCEPT !.err = BadRequest]

\* faulty variant: only a frozen pool turns requests away
require_action_allowed_err_frozen_only(status, action_type) == IF status > 3 /\ action_type \in {Supply, SupplyCollateral, Borrow, DeleteLiquidationAuction} THEN InvalidPoolStatus ELSE 0

\* what a pool's status lets users do: an on-ice pool (2 set by the admin,
\* 3 by the backstop) takes no borrow and no cancelling of a liquidation, a
\* frozen pool (4 set by the admin, 5 by the backstop) takes no supply
\* either
require_action_allowed_err(status, action_type) ==
    IF status > 1 /\ action_type \in {Borrow, DeleteLiquidationAuction}
    THEN InvalidPoolStatus
    ELSE IF status > 3 /\ action_type \in {Supply, SupplyCollateral}
    THEN InvalidPoolStatus
    ELSE 0

\* faulty variant: the count of positions is never looked at
require_under_max_unchecked(w, out, from) == out

\* every change of the positions of `from` re-checks their count against
\* max_positions
require_under_max(w, out, from) ==
    IF out.err = 0 /\ out.positions[from] # w.positions[from]
                   /\ effective_count(out.positions[from]) > w.max_positions
    THEN [w EXCEPT !.err = MaxPositionsExceeded]
    ELSE out

\* one request applied to the working state of the batch; a failed request
\* stops the batch with what the earlier requests did still in the working
\* state
apply_request(w, seq, from, request) ==
    IF require_action_allowed_err(w.status, request.request_type) # 0
    THEN [w EXCEPT !.err = require_action_allowed_err(w.status,
                                                     request.request_type)]
    ELSE Only({require_under_max(w, out, from) :
                 out \in {mutate_positions(w, seq, from, request)}})

\* liabilities that the collateral does not cover
Unhealthy(res, user_positions) ==
    /\ DOMAIN user_positions.liabilities # {}
    /\ CollateralValue(res, user_positions) < LiabilityValue(res, user_positions)

\* faulty variant: health is verified after every request
RECURSIVE apply_requests_health_each(_, _, _, _)
apply_requests_health_each(w, seq, from, requests) ==
    IF requests = <<>> \/ w.err # 0 THEN w
    ELSE Only({IF x.err = 0 /\ x.check_health
                    /\ Unhealthy(x.reserves, x.positions[from])
               THEN [x EXCEPT !.err = InvalidHf]
               ELSE apply_requests_health_each(x, seq, from, Tail(requests)) :
                 x \in {apply_request(w, seq, from, Head(requests))}})

\* the requests are applied one after the other, in the order of the vector
RECURSIVE apply_requests(_, _, _, _)
apply_requests(w, seq, from, requests) ==
    IF requests = <<>> \/ w.err # 0 THEN w
    ELSE Only({apply_requests(x, seq, from, Tail(requests)) :
                 x \in {apply_request(w, seq, from, Head(requests))}})

\* the net token transfers of a batch: spender -> pool, then pool -> to
transfer_out(w, bal, spender, to) ==
    [u \in Users |-> [a \in Reserves |->
        bal[u][a]
            - (IF u = spender THEN MapGet(w.spender_transfer, a) ELSE 0)
            + (IF u = pool_address
               THEN MapGet(w.spender_transfer, a) - MapGet(w.pool_transfer, a)
               ELSE 0)
            + (IF u = to THEN MapGet(w.pool_transfer, a) ELSE 0)]]

\* the end of a batch: the health of `from` is verified against the final
\* positions and the net token transfers are made; a spender or a pool
\* that cannot pay fails the transfer
finish_submit(w, bal, from, spender, to) ==
    LET unhealthy ==
            /\ w.check_health
            /\ Unhealthy(w.reserves, w.positions[from])
        short ==
            \E a \in Reserves :
                \/ bal[spender][a] < MapGet(w.spender_transfer, a)
                \/ bal[pool_address][a] + MapGet(w.spender_transfer, a)
                        < MapGet(w.pool_transfer, a)
        err == IF w.err # 0 THEN w.err
               ELSE IF unhealthy THEN InvalidHf
               ELSE IF short THEN BalanceError
               ELSE 0
    IN  [err |-> err, positions |-> w.positions, auctions |-> w.auctions,
         reserves |-> w.reserves,
         balances |-> IF w.err # 0 \/ unhealthy \/ short THEN bal
                      ELSE transfer_out(w, bal, spender, to),
         applied |-> w.applied, pool_transfer |-> w.pool_transfer,
         spender_transfer |-> w.spender_transfer]

\* the batch of requests run in order against one working state
execute_submit(p, pos, store, res, bal, seq, from, spender, to, requests) ==
    Only({finish_submit(w, bal, from, spender, to) :
            w \in {apply_requests(
                      [err |-> 0, positions |-> pos, auctions |-> store,
                       reserves |-> res, spender_transfer |-> EmptyMap,
                       pool_transfer |-> EmptyMap, check_health |-> FALSE,
                       applied |-> 0,
                       max_positions |-> p.config.max_positions,
                       status |-> p.config.status],
                      seq, from, requests)}})

\* faulty variant: only the spender has to authorize
submit_auth_err_spender_only(from, spender, auths) ==
    IF spender \notin auths THEN AuthError ELSE 0

\* spender.require_auth(); if from != spender { from.require_auth(); }
submit_auth_err(from, spender, auths) ==
    IF spender \notin auths THEN AuthError
    ELSE IF from # spender /\ from \notin auths THEN AuthError
    ELSE 0

submit(p, pos, store, res, bal, seq, from, spender, to, requests, auths) ==
    IF submit_auth_err(from, spender, auths) # 0
    THEN [err |-> submit_auth_err(from, spender, auths), positions |-> pos,
          auctions |-> store, reserves |-> res, balances |-> bal,
          applied |-> 0, pool_transfer |-> EmptyMap,
          spender_transfer |-> EmptyMap]
    ELSE execute_submit(p, pos, store, res, bal, seq, from, spender, to,
                        requests)

Submit(from, spender, to, requests, auths) ==
    /\ ret.op = "none"
    /\ \E out \in {submit(pool, positions, auctions, reserves, balances,
                          sequence, from, spender, to, requests, auths)} :
        /\ positions' = Commit(out.err, positions, out.positions)
        /\ auctions' = Commit(out.err, auctions, out.auctions)
        /\ reserves' = Commit(out.err, reserves, out.reserves)
        /\ balances' = Commit(out.err, balances, out.balances)
        /\ ret' = [NoCall EXCEPT
                     !.op = "submit", !.err = out.err, !.user = from,
                     !.spender = spender, !.to = to, !.auths = auths,
                     !.requests = requests, !.applied = out.applied,
                     !.pool_transfer = out.pool_transfer,
                     !.spender_transfer = out.spender_transfer]
    /\ UNCHANGED <<sequence, pool>>

(* ---------------------------- administration -------------------------- *)

\* e.ledger().timestamp(): a ledger closes every 5 seconds
timestamp(seq) == 5 * seq

\* faulty variant: any signer passes for the admin
admin_auth_err_any_signer(p, auths) ==
    IF auths = {} THEN AuthError ELSE 0

\* let admin = storage::get_admin(&e); admin.require_auth();
admin_auth_err(p, auths) ==
    IF p.admin \notin auths THEN AuthError ELSE 0

\* faulty variant: the incoming admin is not asked
set_admin_err_admin_only(p, new_admin, auths) ==
    IF p.admin \notin auths THEN AuthError ELSE 0

set_admin_err(p, new_admin, auths) ==
    IF p.admin \notin auths THEN AuthError
    ELSE IF new_admin \notin auths THEN AuthError
    ELSE 0

\* the outcome of an admin entry point: the error, the pool it leaves, and
\* the index it returns
AdminOut(err, p, index) == [err |-> err, pool |-> p, index |-> index]

set_admin(p, new_admin, auths) ==
    AdminOut(set_admin_err(p, new_admin, auths),
             [p EXCEPT !.admin = new_admin], 0)

execute_update_pool(p, backstop_take_rate, max_positions) ==
    AdminOut(IF backstop_take_rate > SCALAR_7 THEN BadRequest ELSE 0,
             [p EXCEPT !.config.bstop_rate = backstop_take_rate,
                       !.config.max_positions = max_positions], 0)

update_pool(p, backstop_take_rate, max_positions, auths) ==
    IF admin_auth_err(p, auths) # 0
    THEN AdminOut(admin_auth_err(p, auths), p, 0)
    ELSE execute_update_pool(p, backstop_take_rate, max_positions)

\* the checks on a ReserveConfig: factors are fractions of SCALAR_7
require_valid_reserve_metadata_err(metadata) ==
    IF metadata.c_factor > SCALAR_7 \/ metadata.l_factor > SCALAR_7
    THEN InvalidReserveMetadata
    ELSE 0

execute_queue_set_reserve(p, seq, asset, metadata) ==
    AdminOut(require_valid_reserve_metadata_err(metadata),
             [p EXCEPT !.res_init =
                [a \in DOMAIN @ \cup {asset} |->
                    IF a = asset
                    THEN [new_config |-> metadata,
                          unlock_time |-> timestamp(seq) + WEEK]
                    ELSE @[a]]], 0)

queue_set_reserve(p, seq, asset, metadata, auths) ==
    IF admin_auth_err(p, auths) # 0
    THEN AdminOut(admin_auth_err(p, auths), p, 0)
    ELSE execute_queue_set_reserve(p, seq, asset, metadata)

execute_cancel_queued_set_reserve(p, asset) ==
    AdminOut(IF asset \in DOMAIN p.res_init THEN 0 ELSE BadRequest,
             [p EXCEPT !.res_init = [a \in DOMAIN @ \ {asset} |-> @[a]]], 0)

cancel_set_reserve(p, asset, auths) ==
    IF admin_auth_err(p, auths) # 0
    THEN AdminOut(admin_auth_err(p, auths), p, 0)
    ELSE execute_cancel_queued_set_reserve(p, asset)

\* faulty variant: a full list drops its first asset to make room
push_res_list_rotate(res_list, asset) ==
    IF Len(res_list) >= MAX_RESERVES
    THEN [err |-> 0, res_list |-> Append(Tail(res_list), asset),
          new_index |-> Len(res_list) - 1]
    ELSE [err |-> 0, res_list |-> Append(res_list, asset),
          new_index |-> Len(res_list)]

\* Add a reserve to the back of the list and returns the index
push_res_list(res_list, asset) ==
    IF Len(res_list) >= MAX_RESERVES
    THEN [err |-> BadRequest, res_list |-> res_list, new_index |-> 0]
    ELSE [err |-> 0, res_list |-> Append(res_list, asset),
          new_index |-> Len(Append(res_list, asset)) - 1]

has_res(p, asset) == asset \in DOMAIN p.res_config

\* the queued config takes effect: a listed reserve keeps its index, a new
\* one is pushed onto the reserve list
execute_set_reserve(p, seq, asset) ==
    IF asset \notin DOMAIN p.res_init THEN AdminOut(HostTrap, p, 0)
    ELSE IF p.res_init[asset].unlock_time > timestamp(seq)
    THEN AdminOut(InitNotUnlocked, p, 0)
    ELSE LET pushed == IF has_res(p, asset)
                       THEN [err |-> 0, res_list |-> p.res_list,
                             new_index |-> p.res_config[asset].index]
                       ELSE push_res_list(p.res_list, asset)
             config == [p.res_init[asset].new_config EXCEPT
                          !.index = pushed.new_index]
         IN  AdminOut(pushed.err,
                      [p EXCEPT
                         !.res_list = pushed.res_list,
                         !.res_config =
                            [a \in DOMAIN @ \cup {asset} |->
                                IF a = asset THEN config ELSE @[a]],
                         !.res_init =
                            [a \in DOMAIN @ \ {asset} |-> @[a]]],
                      pushed.new_index)

\* set_reserve asks for no authorization
set_reserve(p, seq, asset, auths) == execute_set_reserve(p, seq, asset)

\* the admin sets one of the admin statuses
execute_set_pool_status(p, pool_status) ==
    AdminOut(IF pool_status \in {0, 2, 4} THEN 0 ELSE BadRequest,
             [p EXCEPT !.config.status = pool_status], 0)

set_status(p, pool_status, auths) ==
    IF admin_auth_err(p, auths) # 0
    THEN AdminOut(admin_auth_err(p, auths), p, 0)
    ELSE execute_set_pool_status(p, pool_status)

\* the shares of the emitted tokens, at most SCALAR_7 in all
set_pool_emissions(p, res_emission_metadata) ==
    LET total[i \in 0..Len(res_emission_metadata)] ==
            IF i = 0 THEN 0 ELSE total[i - 1] + res_emission_metadata[i].share
    IN  AdminOut(IF total[Len(res_emission_metadata)] > SCALAR_7
                 THEN BadRequest ELSE 0,
                 [p EXCEPT !.emis_config = res_emission_metadata], 0)

set_emissions_config(p, res_emission_metadata, auths) ==
    IF admin_auth_err(p, auths) # 0
    THEN AdminOut(admin_auth_err(p, auths), p, 0)
    ELSE set_pool_emissions(p, res_emission_metadata)

\* an admin entry point runs: a panic reverts its writes
AdminCall(op, out, auths, asset, new_admin) ==
    /\ ret.op = "none"
    /\ pool' = Commit(out.err, pool, out.pool)
    /\ ret' = [NoCall EXCEPT !.op = op, !.err = out.err, !.auths = auths,
                             !.asset = asset, !.index = out.index,
                             !.new_admin = new_admin,
                             !.status = pool.config.status]
    /\ UNCHANGED <<sequence, auctions, positions, reserves, balances>>

SetAdmin(new_admin, auths) ==
    AdminCall("set_admin", set_admin(pool, new_admin, auths), auths, "",
              new_admin)

UpdatePool(backstop_take_rate, max_positions, auths) ==
    AdminCall("update_pool",
              update_pool(pool, backstop_take_rate, max_positions, auths),
              auths, "", "")

QueueSetReserve(asset, metadata, auths) ==
    AdminCall("queue_set_reserve",
              queue_set_reserve(pool, sequence, asset, metadata, auths),
              auths, asset, "")

CancelSetReserve(asset, auths) ==
    AdminCall("cancel_set_reserve", cancel_set_reserve(pool, asset, auths),
              auths, asset, "")

SetReserve(asset, auths) ==
    AdminCall("set_reserve", set_reserve(pool, sequence, asset, auths),
              auths, asset, "")

SetStatus(pool_status, auths) ==
    AdminCall("set_status", set_status(pool, pool_status, auths), auths,
              "", "")

SetEmissionsConfig(res_emission_metadata, auths) ==
    AdminCall("set_emissions_config",
              set_emissions_config(pool, res_emission_metadata, auths),
              auths, "", "")

(* ------------------------------ pool status ---------------------------- *)

\* faulty variant: once on-ice, the pool stays on-ice below 60% queued
derived_status_sticky(status, q4w_pct, met_threshold) == IF q4w_pct >= 6000000 THEN 5 ELSE IF status = 3 \/ ~met_threshold \/ q4w_pct >= 3000000 THEN 3 ELSE 1

\* the status the backstop's state asks for; q4w_pct is the fraction of the
\* backstop deposits queued for withdrawal, 7 decimals:
\*   5 at 60% queued unless admin on-ice is set, or at 75% queued;
\*   3 below the minimum deposit, at 30% queued unless admin active is set,
\*     or at 50% queued;
\*   1 with the minimum deposit reached and less than 30% queued;
\* otherwise the status stays what it is
derived_status(status, q4w_pct, met_threshold) ==
    IF (q4w_pct >= 6000000 /\ status # 2) \/ q4w_pct >= 7500000 THEN 5
    ELSE IF ~met_threshold \/ (q4w_pct >= 3000000 /\ status # 0)
                           \/ q4w_pct >= 5000000 THEN 3
    ELSE IF met_threshold /\ q4w_pct < 3000000 THEN 1
    ELSE status

StatusOut(err, p, result) == [err |-> err, pool |-> p, result |-> result]

\* faulty variant: an admin-frozen pool is updated like any other
execute_update_pool_status_any(p, q4w_pct, met_threshold) == StatusOut(0, [p EXCEPT !.config.status = derived_status(p.config.status, q4w_pct, met_threshold)], derived_status(p.config.status, q4w_pct, met_threshold))

\* the pool reads the backstop and stores the status it asks for; an
\* admin-frozen pool is left to the admin
execute_update_pool_status(p, q4w_pct, met_threshold) ==
    IF p.config.status = 4 THEN StatusOut(StatusNotAllowed, p, 0)
    ELSE LET new_status ==
                derived_status(p.config.status, q4w_pct, met_threshold)
         IN  StatusOut(0, [p EXCEPT !.config.status = new_status], new_status)

\* update_status asks for no authorization
update_status(p, q4w_pct, met_threshold, auths) ==
    execute_update_pool_status(p, q4w_pct, met_threshold)

\* the backstop's state is read when the call is made
UpdateStatus(q4w_pct, met_threshold, auths) ==
    /\ ret.op = "none"
    /\ LET out == update_status(pool, q4w_pct, met_threshold, auths)
       IN  /\ pool' = Commit(out.err, pool, out.pool)
           /\ ret' = [NoCall EXCEPT !.op = "update_status", !.err = out.err,
                                    !.auths = auths, !.result = out.result,
                                    !.status = pool.config.status,
                                    !.q4w_pct = q4w_pct,
                                    !.met_threshold = met_threshold]
    /\ UNCHANGED <<sequence, auctions, positions, reserves, balances>>

(* ------------------------------ pool upkeep ---------------------------- *)

\* the underlying a reserve accounts for: what its b tokens are worth and
\* what it owes the backstop, less what its d tokens are worth
reserve_token_balance(reserve) ==
    to_asset_from_b_token(reserve.b_rate, reserve.b_supply)
        + reserve.backstop_credit
        - to_asset_from_d_token(reserve.d_rate, reserve.d_supply)

\* faulty variant: everything the pool holds of the asset is credited
execute_gulp_all_held(res, bal, asset) == [err |-> 0, result |-> bal[pool_address][asset], reserves |-> [res EXCEPT ![asset].backstop_credit = @ + bal[pool_address][asset]]]

\* the underlying the pool holds beyond what the reserve accounts for goes to
\* the backstop's credit; the rates stay as they are
execute_gulp(res, bal, asset) ==
    LET pool_token_balance == bal[pool_address][asset]
        token_balance_delta ==
            pool_token_balance - reserve_token_balance(res[asset])
    IN  IF token_balance_delta <= 0
        THEN [err |-> 0, result |-> 0, reserves |-> res]
        ELSE [err |-> 0, result |-> token_balance_delta,
              reserves |-> [res EXCEPT ![asset].backstop_credit =
                                            @ + token_balance_delta]]

\* gulp asks for no authorization
gulp(res, bal, asset, auths) == execute_gulp(res, bal, asset)

Gulp(asset, auths) ==
    /\ ret.op = "none"
    /\ LET out == gulp(reserves, balances, asset, auths)
       IN  /\ reserves' = Commit(out.err, reserves, out.reserves)
           /\ ret' = [NoCall EXCEPT !.op = "gulp", !.err = out.err,
                                    !.asset = asset, !.auths = auths,
                                    !.result = out.result]
    /\ UNCHANGED <<sequence, auctions, positions, balances, pool>>

\* a holder sends tokens to the pool's address, outside any pool call
TransferToPool(from, asset, amount) ==
    /\ ret.op = "none"
    /\ amount > 0
    /\ balances[from][asset] >= amount
    /\ balances' = [balances EXCEPT ![from][asset] = @ - amount,
                                    ![pool_address][asset] = @ + amount]
    /\ ret' = [NoCall EXCEPT !.op = "transfer", !.asset = asset,
                             !.amount = amount, !.user = from]
    /\ UNCHANGED <<sequence, auctions, positions, reserves, pool>>

\* the (auction_type, user) pairs calls are made for
FillKeys ==
    {<<UserLiquidation, samwise>>, <<BadDebtAuction, backstop>>,
     <<InterestAuction, backstop>>, <<InterestAuction, samwise>>}
Subjects == {samwise, backstop}
Percents == {0, 50, 100}
\* the keys an auction can be stored under
StoredKeys ==
    {<<UserLiquidation, samwise>>, <<BadDebtAuction, backstop>>,
     <<InterestAuction, backstop>>}
\* <<filler, percent, the filler's external transfers succeed>>
FillInputs(k) ==
    ({frodo} \X Percents \X {TRUE})
        \cup {<<k[2], 100, TRUE>>}
        \cup (IF k[1] = UserLiquidation THEN {}
              ELSE {<<frodo, 100, FALSE>>})
\* <<auction_type, user, bid, lot>> given to create_auction: the three
\* well-formed requests, then lists with a repeated address, unknown types,
\* subjects the type does not admit, and assets the subject does not hold
CreateInputs ==
    {<<UserLiquidation, samwise, <<underlying_2>>, <<underlying_0>>>>,
     <<BadDebtAuction, backstop, <<underlying_2>>, <<lp_token>>>>,
     <<InterestAuction, backstop, <<lp_token>>,
       <<underlying_0, underlying_1>>>>,
     <<UserLiquidation, samwise,
       <<underlying_2, lp_token, underlying_2>>, <<underlying_0>>>>,
     <<UserLiquidation, samwise, <<underlying_2>>,
       <<underlying_0, underlying_0>>>>,
     <<BadDebtAuction, backstop, <<underlying_2, underlying_2>>,
       <<lp_token>>>>,
     <<InterestAuction, backstop, <<lp_token>>,
       <<underlying_0, underlying_1, underlying_0>>>>,
     <<3, samwise, <<underlying_2>>, <<underlying_0>>>>,
     <<3, backstop, <<lp_token>>, <<underlying_0>>>>,
     <<UserLiquidation, backstop, <<underlying_2>>, <<underlying_0>>>>,
     <<UserLiquidation, pool_address, <<underlying_2>>, <<underlying_0>>>>,
     <<InterestAuction, samwise, <<lp_token>>, <<underlying_0>>>>,
     <<UserLiquidation, samwise, <<lp_token>>, <<underlying_0>>>>}

Next ==
    \/ \E s \in LedgerPoints : Advance(s)
    \/ \E i \in CreateInputs, p \in {0, 100} :
          CreateAuction(i[1], i[2], i[3], i[4], p)
    \/ \E k \in StoredKeys : \E i \in FillInputs(k) :
          Fill(k[1], k[2], i[1], i[2], i[3])
    \/ \E k \in FillKeys : DeleteStaleAuction(k[1], k[2])
    \/ \E u \in Subjects : DeleteLiquidation(u)
    \/ Repay(samwise, underlying_2, 1)
    \/ Return

Spec == Init /\ [][Next]_vars

(* ------------------- scaling of one stored auction --------------------- *)

\* One auction is stored at block ScaleBlock, the ledger stands ScaleOffsets
\* blocks later, and a single fill is made for any percent.
ScaleBlock == 1000

ScaleOffsets == {0, 1, 7, 100, 199, 200, 201, 233, 399, 400, 401, 500, 600}

ScaleAmounts ==
    {a \in 1..MaxScaleAmount :
        \/ a <= 10
        \/ a % 33 = 0
        \/ a \in {50, 100, 101}
        \/ a >= MaxScaleAmount - 1}

ScaleAuction(auction_type, a) ==
    CASE auction_type = UserLiquidation ->
            [bid |-> (underlying_2 :> a), lot |-> (underlying_0 :> a),
             block |-> ScaleBlock]
      [] auction_type = BadDebtAuction ->
            [bid |-> (underlying_2 :> a), lot |-> (lp_token :> a),
             block |-> ScaleBlock]
      [] OTHER ->
            [bid |-> (lp_token :> a),
             lot |-> (underlying_0 :> a) @@ (underlying_1 :> 1),
             block |-> ScaleBlock]

ScalePositions(auction_type, a) ==
    [u \in Users |->
        CASE u = samwise ->
                [collateral |-> (underlying_0 :> MaxScaleAmount),
                 liabilities |-> (underlying_2 :> MaxScaleAmount),
                 supply |-> EmptyMap]
          [] u = backstop /\ auction_type = BadDebtAuction ->
                [EmptyPositions EXCEPT !.liabilities = (underlying_2 :> a)]
          [] OTHER -> EmptyPositions]

InitScale ==
    \E k \in StoredKeys, a \in ScaleAmounts, db \in ScaleOffsets :
        /\ sequence = ScaleBlock + db
        /\ auctions = set_auction(EmptyMap, ScaleBlock, k[1], k[2],
                                  ScaleAuction(k[1], a))
        /\ positions = ScalePositions(k[1], a)
        /\ reserves = InitialReserves
        /\ balances = InitialBalances
        /\ pool = InitialPool
        /\ ret = NoCall

NextScale ==
    \E k \in FillKeys : \E f \in {frodo, k[2]}, ok \in BOOLEAN :
        \E p \in IF has_auction(auctions, k[1], k[2]) /\ f = frodo
                 THEN 0..101 ELSE {0, 50, 100, 101} :
            Fill(k[1], k[2], f, p, ok)

SpecScale == InitScale /\ [][NextScale]_vars

(* ------------- a liquidation filled over several ledgers --------------- *)

PartialBlock == 176

\* block offsets at which a fill is tried
PartialOffsets == {0, 100, 200, 300, 500}

PartialPercents == {25, 67, 100}

PartialAuction ==
    [bid |-> (underlying_2 :> 1000000000),
     lot |-> (underlying_0 :> 100000000) @@ (underlying_1 :> 10000000),
     block |-> PartialBlock]

\* samwise holds either more than the auction takes, or exactly the lot as
\* collateral
PartialPositions(thin) ==
    [u \in Users |->
        IF u = samwise
        THEN [collateral |->
                IF thin THEN PartialAuction.lot
                ELSE (underlying_0 :> 300000000) @@ (underlying_1 :> 30000000),
              liabilities |-> (underlying_2 :> 2000000000),
              supply |-> EmptyMap]
        ELSE EmptyPositions]

InitPartial ==
    \E thin \in BOOLEAN :
        /\ sequence = PartialBlock
        /\ auctions = set_auction(EmptyMap, PartialBlock, UserLiquidation,
                                  samwise, PartialAuction)
        /\ positions = PartialPositions(thin)
        /\ reserves = InitialReserves
        /\ balances = InitialBalances
        /\ pool = InitialPool
        /\ ret = NoCall

\* the invocation returns and a later ledger opens
NextLedger(s) ==
    /\ ret.op # "none"
    /\ s > sequence
    /\ sequence' = s
    /\ auctions' = expire(auctions, s)
    /\ ret' = NoCall
    /\ UNCHANGED <<positions, reserves, balances, pool>>

NextPartial ==
    \/ \E db \in PartialOffsets : Advance(PartialBlock + db)
    \/ \E db \in PartialOffsets : NextLedger(PartialBlock + db)
    \/ \E p \in PartialPercents :
          Fill(UserLiquidation, samwise, frodo, p, TRUE)

SpecPartial == InitPartial /\ [][NextPartial]_vars

(* ---------------- two auctions stored under different keys ------------- *)

KeysSequence == 1500

\* creation blocks of the stored auctions: stale, and one block short of
\* stale
KeysBlocks == {1000, 1001}

KeysAuction(key, block) ==
    CASE key[1] = UserLiquidation ->
            [bid |-> (underlying_2 :> MaxAmount),
             lot |-> (underlying_0 :> MaxAmount), block |-> block]
      [] key[1] = BadDebtAuction ->
            [bid |-> (underlying_2 :> 1), lot |-> (lp_token :> 1),
             block |-> block]
      [] OTHER ->
            [bid |-> (lp_token :> 1),
             lot |-> (underlying_0 :> 1) @@ (underlying_1 :> 1),
             block |-> block]

InitKeys ==
    \E k1, k2 \in FillKeys : \E b1, b2 \in KeysBlocks :
        /\ k1 # k2
        /\ sequence = KeysSequence
        /\ auctions =
              set_auction(set_auction(EmptyMap, KeysSequence, k1[1], k1[2],
                                      KeysAuction(k1, b1)),
                          KeysSequence, k2[1], k2[2], KeysAuction(k2, b2))
        /\ positions = InitialPositions
        /\ reserves = InitialReserves
        /\ balances = InitialBalances
        /\ pool = InitialPool
        /\ ret = NoCall

NextKeys ==
    \/ Advance(KeysSequence + 1)
    \/ \E i \in CreateInputs :
          CreateAuctionCall(i[1], i[2], i[3], i[4], 100)
    \/ \E k \in FillKeys : \E i \in FillInputs(k) :
          Fill(k[1], k[2], i[1], i[2], i[3])
    \/ \E k \in FillKeys \cup {<<UserLiquidation, backstop>>} :
          DeleteStaleAuction(k[1], k[2])
    \/ \E u \in Subjects : DeleteLiquidation(u)
    \/ Return

SpecKeys == InitKeys /\ [][NextKeys]_vars

(* --------------------------- batches of requests ----------------------- *)

Request(request_type, address, amount) ==
    [request_type |-> request_type, address |-> address, amount |-> amount]

SubmitRequests ==
    {Request(SupplyCollateral, underlying_0, 1),
     Request(WithdrawCollateral, underlying_0, 1),
     Request(Borrow, underlying_2, 1),
     Request(RepayRequest, underlying_2, 1),
     Request(FillUserLiquidationAuction, samwise, 100),
     Request(DeleteLiquidationAuction, samwise, 0),
     Request(10, underlying_0, 1)}

\* every single request, and every request followed by a borrow or by an
\* unknown request
SubmitBatches ==
    {<<r>> : r \in SubmitRequests}
        \cup {<<r, Request(Borrow, underlying_2, 1)>> : r \in SubmitRequests}
        \cup {<<r, Request(10, underlying_0, 1)>> : r \in SubmitRequests}

\* <<from, spender, to>>
SubmitParties ==
    {<<samwise, samwise, frodo>>, <<samwise, frodo, samwise>>,
     <<frodo, frodo, frodo>>}

SubmitAuction ==
    [bid |-> (underlying_2 :> 1), lot |-> (underlying_0 :> 1), block |-> 0]

InitSubmit ==
    /\ sequence = 0
    /\ auctions = set_auction(EmptyMap, 0, UserLiquidation, samwise,
                              SubmitAuction)
    /\ positions = InitialPositions
    /\ reserves = InitialReserves
    /\ balances = InitialBalances
    /\ pool = InitialPool
    /\ ret = NoCall

NextSubmit ==
    \/ Advance(200)
    \/ \E q \in SubmitParties, b \in SubmitBatches,
          auths \in SUBSET {samwise, frodo} :
            Submit(q[1], q[2], q[3], b, auths)
    \/ Return

SpecSubmit == InitSubmit /\ [][NextSubmit]_vars

(* ------------------------- the admin's entry points -------------------- *)

\* a token the pool does not list yet
blnd == "blnd"

\* the ledgers the admin harness visits: the week of the time lock ends at
\* ledger WEEK / 5
AdminLedgers == {1, WEEK \div 5, WEEK \div 5 + 1}

AdminSigners == SUBSET {bombadil, samwise}

AdminAssets == {underlying_0, blnd}

\* reserve configs the admin queues: one well-formed, one with a collateral
\* factor above 1
AdminConfigs ==
    {[index |-> 0, c_factor |-> 2000000, l_factor |-> 5000000],
     [index |-> 0, c_factor |-> SCALAR_7 + 1, l_factor |-> 5000000]}

\* <<backstop_take_rate, max_positions>>
AdminPoolUpdates == {<<500000, 6>>, <<SCALAR_7 + 1, 4>>}

AdminStatuses == {2, 3}

AdminEmissions == {<<[res_index |-> 0, share |-> SCALAR_7]>>}

\* the reserve at position i of a long reserve list
ListedAsset(i) ==
    IF i <= Len(InitialPool.res_list) THEN InitialPool.res_list[i]
    ELSE ToString(i)

\* a pool that lists n reserves
PoolListing(n) ==
    [InitialPool EXCEPT
       !.res_list = [i \in 1..n |-> ListedAsset(i)],
       !.res_config = [a \in {ListedAsset(i) : i \in 1..n} |->
                         [index |-> (CHOOSE i \in 1..n : ListedAsset(i) = a) - 1,
                          c_factor |-> 1, l_factor |-> 1]]]

\* list lengths the harness starts from: the tests' three reserves, one
\* short of full, and full
AdminListings == {3, MAX_RESERVES - 1, MAX_RESERVES}

InitAdmin ==
    \E n \in AdminListings :
        /\ sequence = 0
        /\ auctions = EmptyMap
        /\ positions = InitialPositions
        /\ reserves = InitialReserves
        /\ balances = InitialBalances
        /\ pool = PoolListing(n)
        /\ ret = NoCall

NextAdmin ==
    \/ \E s \in AdminLedgers : Advance(s)
    \/ \E auths \in AdminSigners :
        \/ \E new_admin \in {bombadil, samwise} : SetAdmin(new_admin, auths)
        \/ \E u \in AdminPoolUpdates : UpdatePool(u[1], u[2], auths)
        \/ \E a \in AdminAssets, c \in AdminConfigs :
              QueueSetReserve(a, c, auths)
        \/ \E a \in AdminAssets : CancelSetReserve(a, auths)
        \/ \E a \in AdminAssets : SetReserve(a, auths)
        \/ \E st \in AdminStatuses : SetStatus(st, auths)
        \/ \E m \in AdminEmissions : SetEmissionsConfig(m, auths)
    \/ Return

SpecAdmin == InitAdmin /\ [][NextAdmin]_vars

(* ---------------------- conversions at a fixed rate -------------------- *)

\* the greatest underlying amount converted
MaxUnderlying == 40

\* rates from 1 up: SCALAR_12, SCALAR_12 + 3, 1.6, 1.900000000001 and 3
Rates ==
    {RateOne, [hi |-> LIMB, lo |-> 3], [hi |-> 1600000, lo |-> 0],
     [hi |-> 1900000, lo |-> 1], [hi |-> 3000000, lo |-> 0]}

\* the rate of one side of a reserve
SideRate(res, asset, side) ==
    IF side = "b" THEN res[asset].b_rate ELSE res[asset].d_rate

\* an underlying amount is converted to tokens of one side and back
RoundTrip(asset, side, amount) ==
    /\ ret.op = "none"
    /\ LET rate == SideRate(reserves, asset, side)
           tokens == from_underlying(amount, rate)
       IN  ret' = [NoCall EXCEPT !.op = "round_trip", !.asset = asset,
                                 !.side = side, !.amount = amount,
                                 !.rate = rate, !.tokens = tokens,
                                 !.underlying = to_underlying(tokens, rate)]
    /\ UNCHANGED <<sequence, auctions, positions, reserves, balances, pool>>

InitRates ==
    /\ sequence = 0
    /\ auctions = EmptyMap
    /\ positions = InitialPositions
    /\ \E b \in Rates, d \in Rates :
          reserves = [InitialReserves EXCEPT ![underlying_0].b_rate = b,
                                             ![underlying_0].d_rate = d]
    /\ balances = InitialBalances
    /\ pool = InitialPool
    /\ ret = NoCall

NextRates ==
    \/ \E side \in {"b", "d"}, amount \in 0..MaxUnderlying :
          RoundTrip(underlying_0, side, amount)
    \/ Return

SpecRates == InitRates /\ [][NextRates]_vars

(* ----------------------- the positions of one user --------------------- *)

\* the rate 1.6
Rate16 == [hi |-> 1600000, lo |-> 0]

\* reserves whose rates have moved off 1: b tokens of underlying_0 and both
\* tokens of underlying_1 are worth 1.6, d tokens of underlying_2 are worth
\* 1.000000000003
UserReserves ==
    [InitialReserves EXCEPT
        ![underlying_0].b_rate = Rate16,
        ![underlying_1].b_rate = Rate16,
        ![underlying_1].d_rate = Rate16,
        ![underlying_2].d_rate = [hi |-> LIMB, lo |-> 3]]

\* what every party holds of every token
UserFunds == 5

UserBalances == [u \in Users |-> [a \in Reserves |-> UserFunds]]

\* an amount above what any balance is worth
Whole == MaxUnderlying

\* the requests samwise makes one at a time
UserRequests ==
    {Request(Supply, underlying_0, 1),
     Request(Supply, underlying_0, 2),
     Request(Supply, underlying_1, 2),
     Request(Withdraw, underlying_1, 1),
     Request(Withdraw, underlying_0, Whole),
     Request(SupplyCollateral, underlying_1, 3),
     Request(WithdrawCollateral, underlying_1, 1),
     Request(WithdrawCollateral, underlying_0, Whole),
     Request(Borrow, underlying_1, 1),
     Request(RepayRequest, underlying_2, 1),
     Request(RepayRequest, underlying_2, Whole)}

\* the batches samwise submits: every request alone and every two of them
\* in both orders, among them all collateral withdrawn before all debt is
\* repaid; a borrow before and after the repayment of everything; amounts
\* supplied and then withdrawn whole, borrowed and then repaid whole
UserBatches ==
    {<<r>> : r \in UserRequests}
        \cup {<<r, s>> : r \in UserRequests, s \in UserRequests}
        \cup {<<Request(Borrow, underlying_2, 1),
                Request(RepayRequest, underlying_2, Whole)>>,
              <<Request(RepayRequest, underlying_2, Whole),
                Request(Borrow, underlying_2, 1)>>}
        \cup {<<Request(Supply, underlying_1, x),
                Request(Withdraw, underlying_1, Whole)>> : x \in 1..3}
        \cup {<<Request(Borrow, underlying_1, x),
                Request(RepayRequest, underlying_1, Whole)>> : x \in 1..3}

\* <<from, spender, to>>
UserParties == {<<samwise, samwise, samwise>>, <<samwise, frodo, samwise>>}

\* the values update_pool sets max_positions to
UserMaxPositions == {2, 4}

\* no batch has moved tokens yet
Untouched == balances = UserBalances

\* a liquidation of samwise that takes all the collateral for a part of the
\* debt
UserAuction ==
    [bid |-> (underlying_2 :> 1), lot |-> (underlying_0 :> MaxAmount),
     block |-> 0]

InitUser ==
    /\ sequence = 0
    /\ auctions = set_auction(EmptyMap, 0, UserLiquidation, samwise,
                              UserAuction)
    /\ positions = InitialPositions
    /\ reserves = UserReserves
    /\ balances = UserBalances
    /\ pool = InitialPool
    /\ ret = NoCall

NextUser ==
    \/ Advance(200)
    \/ \E q \in UserParties, b \in UserBatches :
          Untouched /\ Submit(q[1], q[2], q[3], b, {samwise, frodo})
    \/ Submit(frodo, frodo, frodo,
              <<Request(FillUserLiquidationAuction, samwise, 100)>>, {frodo})
    \/ \E max_positions \in UserMaxPositions :
          UpdatePool(500000, max_positions, {bombadil})
    \/ Return

SpecUser == InitUser /\ [][NextUser]_vars

(* --------------- a liquidation filled in parts within one block -------- *)

\* amounts of the one bid and the one lot entry
SplitAmounts == {1, 2, 3, 7, 10, 33}

\* block offsets of the ledger the fills are made in
SplitOffsets == {0, 1, 100, 199, 200, 201, 300, 399, 400}

SplitPercents == {0, 1, 25, 33, 50, 67, 99, 100, 101}

SplitAuction(bid_amount, lot_amount) ==
    [bid |-> (underlying_2 :> bid_amount), lot |-> (underlying_0 :> lot_amount),
     block |-> ScaleBlock]

\* samwise holds exactly the lot as collateral and owes exactly the bid;
\* nobody else holds anything
SplitPositions(bid_amount, lot_amount) ==
    [u \in Users |->
        IF u = samwise
        THEN [collateral |-> (underlying_0 :> lot_amount),
              liabilities |-> (underlying_2 :> bid_amount),
              supply |-> EmptyMap]
        ELSE EmptyPositions]

InitSplit ==
    \E bid_amount \in SplitAmounts, lot_amount \in SplitAmounts,
       db \in SplitOffsets :
        /\ sequence = ScaleBlock + db
        /\ auctions = set_auction(EmptyMap, ScaleBlock, UserLiquidation,
                                  samwise,
                                  SplitAuction(bid_amount, lot_amount))
        /\ positions = SplitPositions(bid_amount, lot_amount)
        /\ reserves = InitialReserves
        /\ balances = InitialBalances
        /\ pool = InitialPool
        /\ ret = NoCall

NextSplit ==
    \/ \E p \in SplitPercents : Fill(UserLiquidation, samwise, frodo, p, TRUE)
    \/ Return

SpecSplit == InitSplit /\ [][NextSplit]_vars

(* ------------------------ status and surplus of a pool ----------------- *)

\* samwise also lends underlying_0 and holds underlying_1 as collateral
StatusPositions ==
    [InitialPositions EXCEPT
        ![samwise].supply = (underlying_0 :> 1),
        ![samwise].collateral = @ @@ (underlying_1 :> 3)]

\* reserves whose rates have moved off 1, with the b tokens of the positions
\* above issued and lenders of underlying_2 behind its debt
StatusReserves ==
    [UserReserves EXCEPT ![underlying_0].b_supply = 2 * MaxAmount + 1,
                         ![underlying_1].b_supply = 3,
                         ![underlying_2].b_supply = 2 * MaxAmount + 3]

\* the pool holds what its reserves account for, every other party holds
\* UserFunds of every token
StatusBalances ==
    [u \in Users |-> [a \in Reserves |->
        IF u = pool_address THEN reserve_token_balance(StatusReserves[a])
        ELSE UserFunds]]

\* fractions of the backstop deposits queued for withdrawal: none, and the
\* values on both sides of 30%, 50%, 60% and 75%
StatusQueued ==
    {0, 2999999, 3000000, 4999999, 5000000, 5999999, 6000000, 7499999,
     7500000}

StatusSigners == {{}, {frodo}}

\* the requests samwise makes one at a time while the status changes
StatusRequests ==
    {Request(Supply, underlying_0, 1),
     Request(Withdraw, underlying_0, 1),
     Request(SupplyCollateral, underlying_1, 3),
     Request(WithdrawCollateral, underlying_0, 1),
     Request(Borrow, underlying_1, 1),
     Request(RepayRequest, underlying_2, 1),
     Request(DeleteLiquidationAuction, samwise, 0)}

\* no batch has moved tokens yet
StatusUntouched ==
    \A a \in Reserves : balances[samwise][a] = UserFunds

InitStatus ==
    /\ sequence = 0
    /\ auctions = set_auction(EmptyMap, 0, UserLiquidation, samwise,
                              UserAuction)
    /\ positions = StatusPositions
    /\ reserves = StatusReserves
    /\ balances = StatusBalances
    /\ pool = InitialPool
    /\ ret = NoCall

NextStatus ==
    \/ \E q4w_pct \in StatusQueued, met_threshold \in BOOLEAN,
          auths \in StatusSigners :
            UpdateStatus(q4w_pct, met_threshold, auths)
    \/ \E pool_status \in {0, 2, 4}, auths \in {{bombadil}, {frodo}} :
          SetStatus(pool_status, auths)
    \/ \E r \in StatusRequests :
          StatusUntouched /\ Submit(samwise, samwise, samwise, <<r>>, {samwise})
    \/ StatusUntouched
          /\ Submit(frodo, frodo, frodo,
                    <<Request(FillUserLiquidationAuction, samwise, 100)>>,
                    {frodo})
    \/ \E a \in {underlying_0, underlying_2} :
          balances[frodo][a] > UserFunds - 2 /\ TransferToPool(frodo, a, 1)
    \/ \E a \in Reserves, auths \in StatusSigners : Gulp(a, auths)
    \/ Return

SpecStatus == InitStatus /\ [][NextStatus]_vars

(* ------------------------------ properties ---------------------------- *)

CeilDiv(a, b) == (a + b - 1) \div b
FloorDiv(a, b) == a \div b

FillReturned == ret.op = "fill" /\ ret.err = 0
\* the call found an auction stored under its key
Found == DOMAIN ret.before.bid # {} \/ DOMAIN ret.before.lot # {}
BlockDif == sequence - ret.before.block
RetKey == AuctionKey(ret.auction_type, ret.user)
StoredBid(a) ==
    IF RetKey \in DOMAIN auctions THEN MapGet(auctions[RetKey].data.bid, a)
    ELSE 0
StoredLot(a) ==
    IF RetKey \in DOMAIN auctions THEN MapGet(auctions[RetKey].data.lot, a)
    ELSE 0

\* C1: the block modifiers a fill used are those of the curve: up to 200
\* blocks the lot modifier is db * 50_000 and the bid modifier 10^7; between
\* 200 and 400 the lot modifier is 10^7 and the bid modifier
\* 10^7 - (db - 200) * 50_000; from 400 on they are 10^7 and 0.
C1_BlockModifiers ==
    FillReturned =>
        /\ BlockDif <= 200 =>
                ret.lot_mod = BlockDif * 50000 /\ ret.bid_mod = 10000000
        /\ (200 < BlockDif /\ BlockDif < 400) =>
                /\ ret.lot_mod = 10000000
                /\ ret.bid_mod = 10000000 - (BlockDif - 200) * 50000
        /\ BlockDif >= 400 => ret.lot_mod = 10000000 /\ ret.bid_mod = 0

C1_Witness ==
    FillReturned /\ 200 < BlockDif /\ BlockDif < 400
        /\ ret.bid_mod > 0 /\ ret.bid_mod < SCALAR_7

\* C2: for every bid entry a fill of p percent charges
\* ceil(ceil(amount * p / 100) * bid_mod / 10^7) and leaves
\* amount - ceil(amount * p / 100) in the stored auction.
C2_BidRoundsUp ==
    FillReturned =>
        \A a \in DOMAIN ret.before.bid :
            LET amount == ret.before.bid[a]
                base == CeilDiv(amount * ret.percent, 100)
            IN  /\ MapGet(ret.to_fill.bid, a)
                        = CeilDiv(base * ret.bid_mod, SCALAR_7)
                /\ StoredBid(a) = amount - base

C2_Witness ==
    /\ FillReturned
    /\ \E a \in DOMAIN ret.before.bid :
        LET amount == ret.before.bid[a]
            base == CeilDiv(amount * ret.percent, 100)
        IN  /\ (amount * ret.percent) % 100 # 0
            /\ (base * ret.bid_mod) % SCALAR_7 # 0
            /\ StoredBid(a) > 0

\* C3: for every lot entry a fill of p percent pays
\* floor(floor(amount * p / 100) * lot_mod / 10^7) and leaves
\* amount - floor(amount * p / 100) in the stored auction; a 100% fill at an
\* offset db below 200 pays floor(amount * db * 50_000 / 10^7).
C3_LotRoundsDown ==
    FillReturned =>
        \A a \in DOMAIN ret.before.lot :
            LET amount == ret.before.lot[a]
                base == FloorDiv(amount * ret.percent, 100)
            IN  /\ MapGet(ret.to_fill.lot, a)
                        = FloorDiv(base * ret.lot_mod, SCALAR_7)
                /\ StoredLot(a) = amount - base
                /\ (ret.percent = 100 /\ BlockDif < 200) =>
                        MapGet(ret.to_fill.lot, a)
                            = FloorDiv(amount * BlockDif * 50000, SCALAR_7)

C3_Witness ==
    /\ FillReturned
    /\ ret.percent = 100
    /\ 0 < BlockDif /\ BlockDif < 200
    /\ \E a \in DOMAIN ret.before.lot :
        /\ (ret.before.lot[a] * BlockDif * 50000) % SCALAR_7 # 0
        /\ MapGet(ret.to_fill.lot, a) > 0

\* C4: after a successful fill the auction is gone from storage exactly when
\* nothing remains of its bid and of its lot; otherwise the remainder is
\* stored under the same key with the block of the original auction.
C4_RemainderKeepsBlock ==
    FillReturned =>
        LET bid_left == \E a \in DOMAIN ret.before.bid :
                ret.before.bid[a]
                    - CeilDiv(ret.before.bid[a] * ret.percent, 100) > 0
            lot_left == \E a \in DOMAIN ret.before.lot :
                ret.before.lot[a]
                    - FloorDiv(ret.before.lot[a] * ret.percent, 100) > 0
        IN  /\ RetKey \notin DOMAIN auctions <=> (~bid_left /\ ~lot_left)
            /\ RetKey \in DOMAIN auctions =>
                    auctions[RetKey].data.block = ret.before.block

C4_Witness ==
    /\ FillReturned
    /\ RetKey \in DOMAIN auctions
    /\ sequence > auctions[RetKey].data.block

\* C5: a fill that aborts leaves every stored auction and every user's
\* positions as they were before the call.
C5_FailedFillChangesNothing ==
    [][(ret'.op = "fill" /\ ret'.err # 0) =>
            (auctions' = auctions /\ positions' = positions)]_vars

\* a fill that read the auction and scaled it, and then could not settle
C5_Witness ==
    /\ ret.op = "fill"
    /\ ret.err = BalanceError
    /\ Found
    /\ RetKey \in DOMAIN auctions

\* C6: a fill whose filler is the subject of the auction aborts with
\* InvalidLiquidation, for every auction type, whatever the percent and
\* whether or not an auction is stored.
C6_SelfFillRejected ==
    (ret.op = "fill" /\ ret.user = ret.filler) =>
        ret.err = InvalidLiquidation

C6_Witness ==
    /\ ret.op = "fill"
    /\ ret.user = ret.filler
    /\ ret.percent > 100
    /\ ~Found
    /\ ret.err = InvalidLiquidation

\* C7: a fill of a stored auction by another address aborts with BadRequest
\* exactly when the percent is 0 or above 100, at every block offset.
C7_PercentRange ==
    (ret.op = "fill" /\ ret.user # ret.filler /\ Found) =>
        ((ret.percent = 0 \/ ret.percent > 100) <=> ret.err = BadRequest)

C7_Witness ==
    /\ ret.op = "fill"
    /\ Found
    /\ ret.percent = 0
    /\ BlockDif >= 400
    /\ ret.err = BadRequest

C9_NeverRemovedByLedger ==
    [][sequence' # sequence => auctions' = auctions]_vars

\* C9: while its temporary entry is live the ledger advancing leaves a stored
\* auction as it is; every write of an auction keeps the entry live for at
\* least LEDGER_THRESHOLD_SHARED further ledgers; and an auction leaves
\* storage only by a fill that exhausts it, by delete_stale_auction or
\* delete_liquidation, or when that lifetime has run out.
C9_LiveAuctionPersists ==
    [][/\ sequence' # sequence =>
            \A k \in DOMAIN auctions :
                auctions[k].live_until >= sequence' =>
                    k \in DOMAIN auctions' /\ auctions'[k] = auctions[k]
       /\ \A k \in DOMAIN auctions' :
            (k \notin DOMAIN auctions \/ auctions'[k] # auctions[k]) =>
                auctions'[k].live_until
                    >= sequence' + LEDGER_THRESHOLD_SHARED
       /\ \A k \in DOMAIN auctions \ DOMAIN auctions' :
            \/ /\ ret'.op \in {"fill", "delete_stale_auction",
                               "delete_liquidation"}
               /\ ret'.err = 0
               /\ k = AuctionKey(ret'.auction_type, ret'.user)
            \/ sequence' > auctions[k].live_until]_vars

\* an auction older than 500 blocks that is still stored
C9_Witness ==
    \E k \in DOMAIN auctions : sequence - auctions[k].data.block > 500

\* C10: a 100% fill 400 or more blocks after the auction's block charges no
\* bid, pays the whole remaining lot and deletes the auction.
C10_FreeLotFrom400 ==
    (FillReturned /\ ret.percent = 100 /\ BlockDif >= 400) =>
        /\ DOMAIN ret.to_fill.bid = {}
        /\ ret.to_fill.lot = ret.before.lot
        /\ RetKey \notin DOMAIN auctions

C10_Witness ==
    /\ FillReturned
    /\ ret.percent = 100
    /\ BlockDif > 500
    /\ DOMAIN ret.to_fill.lot # {}

\* the auction of the tested liquidation after its first and second fill
PartialRemainder1 ==
    [bid |-> (underlying_2 :> 750000000),
     lot |-> (underlying_0 :> 75000000) @@ (underlying_1 :> 7500000),
     block |-> PartialBlock]
PartialRemainder2 ==
    [bid |-> (underlying_2 :> 247500000),
     lot |-> (underlying_0 :> 24750000) @@ (underlying_1 :> 2475000),
     block |-> PartialBlock]

\* the remainders of the tested sequence: 25%, then 67%, then 100%
TestedRemainders(r, store) ==
    LET key == AuctionKey(r.auction_type, r.user)
    IN  /\ (r.before = PartialAuction /\ r.percent = 25) =>
                key \in DOMAIN store /\ store[key].data = PartialRemainder1
        /\ (r.before = PartialRemainder1 /\ r.percent = 67) =>
                key \in DOMAIN store /\ store[key].data = PartialRemainder2
        /\ (r.before = PartialRemainder2 /\ r.percent = 100) =>
                key \notin DOMAIN store

\* the scaled amounts of the tested sequence at offsets 100, 200 and 300
TestedFills(r, seq) ==
    LET db == seq - r.before.block
    IN  /\ (r.before = PartialAuction /\ r.percent = 25 /\ db = 100) =>
                /\ r.to_fill.bid = (underlying_2 :> 250000000)
                /\ r.to_fill.lot = (underlying_0 :> 12500000)
                                        @@ (underlying_1 :> 1250000)
        /\ (r.before = PartialRemainder1 /\ r.percent = 67 /\ db = 200) =>
                /\ r.to_fill.bid = (underlying_2 :> 502500000)
                /\ r.to_fill.lot = (underlying_0 :> 50250000)
                                        @@ (underlying_1 :> 5025000)
        /\ (r.before = PartialRemainder2 /\ r.percent = 100 /\ db = 300) =>
                /\ r.to_fill.bid = (underlying_2 :> 123750000)
                /\ r.to_fill.lot = (underlying_0 :> 24750000)
                                        @@ (underlying_1 :> 2475000)

\* the user's collateral fell by the scaled lot of the fill `r`
LotLeftCollateral(r, pos, pos2) ==
    \A a \in Reserves :
        MapGet(pos2[r.user].collateral, a)
            = MapGet(pos[r.user].collateral, a) - MapGet(r.to_fill.lot, a)

\* the user's liabilities fell by the scaled bid of the fill `r`
BidLeftLiabilities(r, pos, pos2) ==
    \A a \in Reserves :
        MapGet(pos2[r.user].liabilities, a)
            = MapGet(pos[r.user].liabilities, a) - MapGet(r.to_fill.bid, a)

\* the fill `r` exhausted the auction and left the user with liabilities and
\* no collateral
LeftBadDebt(r, store2, pos, pos2) ==
    /\ AuctionKey(r.auction_type, r.user) \notin DOMAIN store2
    /\ DOMAIN pos2[r.user].collateral = {}
    /\ \E a \in Reserves :
        MapGet(pos[r.user].liabilities, a) - MapGet(r.to_fill.bid, a) > 0

LiquidationFilled(r) ==
    r.op = "fill" /\ r.err = 0 /\ r.auction_type = UserLiquidation

\* C11 as claimed: every fill of a user liquidation lowers the user's
\* collateral by the fill's scaled lot and the user's liabilities by the
\* fill's scaled bid, and the tested sequence leaves the stated remainders.
C11_EveryFillLowersByScaled ==
    [][LiquidationFilled(ret') =>
            /\ LotLeftCollateral(ret', positions, positions')
            /\ BidLeftLiabilities(ret', positions, positions')
            /\ TestedRemainders(ret', auctions')]_vars

\* C11: every fill of a user liquidation lowers the user's collateral by the
\* fill's scaled lot; it lowers the user's liabilities by the fill's scaled
\* bid, except that a fill which exhausts the auction and leaves the user
\* without collateral moves all liabilities the user still has to the
\* backstop.  The tested sequence (25% at offset 100, 67% at 200, 100% at
\* 300) leaves the stated remainders and scaled amounts.
C11_FillLowersByScaledOrBadDebt ==
    [][LiquidationFilled(ret') =>
            /\ LotLeftCollateral(ret', positions, positions')
            /\ IF LeftBadDebt(ret', auctions', positions, positions')
               THEN /\ DOMAIN positions'[ret'.user].liabilities = {}
                    /\ \A a \in Reserves :
                        MapGet(positions'[backstop].liabilities, a)
                            = MapGet(positions[backstop].liabilities, a)
                                + MapGet(positions[ret'.user].liabilities, a)
                                - MapGet(ret'.to_fill.bid, a)
               ELSE BidLeftLiabilities(ret', positions, positions')
            /\ TestedRemainders(ret', auctions')
            /\ TestedFills(ret', sequence')]_vars

\* the tested sequence has run to its last fill
C11_Witness ==
    /\ LiquidationFilled(ret)
    /\ ret.before = PartialRemainder2
    /\ ret.percent = 100
    /\ BlockDif = 300
    /\ RetKey \notin DOMAIN auctions
    /\ positions[samwise].collateral
            = (underlying_0 :> 212500000) @@ (underlying_1 :> 21250000)
    /\ positions[samwise].liabilities = (underlying_2 :> 1123750000)

\* every entry of the map is one unit
AllDust(m) == DOMAIN m # {} /\ \A a \in DOMAIN m : m[a] = 1

\* C12: a 99% fill of an auction whose bid and lot entries are all 1 takes
\* the whole bid out of the auction and none of the lot: the remainder
\* {bid: empty, lot: as before} is stored under the key, the filler receives
\* no lot, and is charged the whole bid below offset 400 and nothing from
\* offset 400 on.
C12_DustFill ==
    (FillReturned /\ ret.percent = 99
        /\ AllDust(ret.before.bid) /\ AllDust(ret.before.lot)) =>
        /\ RetKey \in DOMAIN auctions
        /\ DOMAIN auctions[RetKey].data.bid = {}
        /\ auctions[RetKey].data.lot = ret.before.lot
        /\ DOMAIN ret.to_fill.lot = {}
        /\ BlockDif < 400 => ret.to_fill.bid = ret.before.bid
        /\ BlockDif >= 400 => DOMAIN ret.to_fill.bid = {}

C12_Witness ==
    /\ FillReturned
    /\ ret.percent = 99
    /\ AllDust(ret.before.bid) /\ AllDust(ret.before.lot)
    /\ BlockDif = 399
    /\ ret.to_fill.bid = ret.before.bid
    /\ RetKey \in DOMAIN auctions

\* the list names some address more than once
HasRepeat(list) ==
    \E i, j \in 1..Len(list) : i < j /\ list[i] = list[j]

\* C13: create_auction given a bid list or a lot list that repeats an
\* address, or an auction type other than 0, 1 and 2, aborts with BadRequest
\* and leaves the stored auctions as they were.
C13_MalformedCreateRejected ==
    [][(/\ ret'.op = "create_auction"
        /\ \/ HasRepeat(ret'.bid)
           \/ HasRepeat(ret'.lot)
           \/ ret'.auction_type \notin {0, 1, 2}) =>
            (ret'.err = BadRequest /\ auctions' = auctions)]_vars

\* a request that is well-formed but for one address named twice in the lot
C13_Witness ==
    /\ ret.op = "create_auction"
    /\ ret.auction_type = InterestAuction
    /\ ret.user = backstop
    /\ ret.percent = 100
    /\ ~HasRepeat(ret.bid)
    /\ HasRepeat(ret.lot)
    /\ ret.err = BadRequest
    /\ RetKey \notin DOMAIN auctions

\* C14: at most one auction per (auction_type, user) is in progress: a
\* creation for a (type, user) that already has a stored auction fails and
\* leaves every stored auction, that one's bid, lot and block included, as it
\* was
C14_StoredAuctionNotOverwritten ==
    [][(ret'.op = "create_auction"
        /\ has_auction(auctions, ret'.auction_type, ret'.user))
       => (ret'.err # 0 /\ auctions' = auctions)]_vars

\* a well-formed creation refused at a later ledger than the stored auction's
\* block, because the (type, user) already has an auction
C14_Witness ==
    /\ ret.op = "create_auction"
    /\ ret.err = AuctionInProgress
    /\ has_auction(auctions, ret.auction_type, ret.user)
    /\ get_auction(auctions, ret.auction_type, ret.user).block < sequence

\* C15: a creation of a user liquidation (type 0) whose subject is the pool
\* contract or the backstop, with bid and lot lists free of repeats, aborts
\* with InvalidLiquidation and stores nothing, whatever positions the subject
\* holds and whatever the percent
C15_NoLiquidationOfPoolOrBackstop ==
    [][(ret'.op = "create_auction"
        /\ ret'.auction_type = UserLiquidation
        /\ ret'.user \in {pool_address, backstop}
        /\ ~HasRepeat(ret'.bid) /\ ~HasRepeat(ret'.lot))
       => (ret'.err = InvalidLiquidation /\ auctions' = auctions)]_vars

\* the pool contract, holding the listed collateral and liability, refused as
\* the subject of a liquidation of every position
C15_Witness ==
    /\ ret.op = "create_auction"
    /\ ret.auction_type = UserLiquidation
    /\ ret.user = pool_address
    /\ ret.percent = 100
    /\ ListSet(ret.bid) \subseteq DOMAIN positions[pool_address].liabilities
    /\ ListSet(ret.lot) \subseteq DOMAIN positions[pool_address].collateral
    /\ ret.err = InvalidLiquidation
    /\ ~has_auction(auctions, UserLiquidation, pool_address)

\* C16: delete_liquidation removes the user's UserLiquidation auction when
\* one is stored, whatever its age, and leaves every other stored auction as
\* it was; when the user has no UserLiquidation auction it aborts with
\* BadRequest and removes nothing, the user's auctions of other types
\* included
C16_DeleteLiquidation ==
    [][ret'.op = "delete_liquidation" =>
        LET key == AuctionKey(UserLiquidation, ret'.user)
        IN  IF key \in DOMAIN auctions
            THEN /\ ret'.err = 0
                 /\ DOMAIN auctions' = DOMAIN auctions \ {key}
                 /\ \A k \in DOMAIN auctions' : auctions'[k] = auctions[k]
            ELSE /\ ret'.err = BadRequest
                 /\ auctions' = auctions]_vars

\* a liquidation removed in the ledger it was created in, long before it
\* would be stale
C16_Witness ==
    /\ ret.op = "delete_liquidation"
    /\ ret.err = 0
    /\ DOMAIN ret.before.bid # {}
    /\ ret.before.block = sequence
    /\ ~has_auction(auctions, UserLiquidation, ret.user)

\* delete_liquidation for the backstop refused while the backstop's auction
\* of another type stays stored
C16_WitnessOtherType ==
    /\ ret.op = "delete_liquidation"
    /\ ret.err = BadRequest
    /\ \E k \in DOMAIN auctions : k[2] = ret.user /\ k[1] # UserLiquidation

\* C17: auctions are isolated by their (auction_type, user) key:
\* delete_stale_auction for a key with no stored auction aborts with
\* BadRequest and removes nothing, even when the same user has a stale
\* auction of another type; and a create, fill or delete for one key leaves
\* the auction stored under every other key exactly as it was and stores no
\* auction under another key
C17_KeysIsolated ==
    [][/\ (ret'.op = "delete_stale_auction"
            /\ ~has_auction(auctions, ret'.auction_type, ret'.user))
           => (ret'.err = BadRequest /\ auctions' = auctions)
       /\ ret'.op \in {"create_auction", "fill", "delete_stale_auction",
                        "delete_liquidation"}
           => LET key == AuctionKey(ret'.auction_type, ret'.user)
              IN  /\ \A k \in DOMAIN auctions \ {key} :
                        k \in DOMAIN auctions' /\ auctions'[k] = auctions[k]
                  /\ DOMAIN auctions' \ DOMAIN auctions \subseteq {key}]_vars

\* delete_stale_auction refused for a user's missing auction of one type
\* while the same user's stale auction of another type stays stored
C17_Witness ==
    /\ ret.op = "delete_stale_auction"
    /\ ret.err = BadRequest
    /\ ~has_auction(auctions, ret.auction_type, ret.user)
    /\ \E k \in DOMAIN auctions :
          /\ k[2] = ret.user
          /\ k[1] # ret.auction_type
          /\ auctions[k].data.block + 500 <= sequence

\* an auction removed by a successful call while the same user's auction of
\* another type stays stored
C17_WitnessRemoved ==
    /\ ret.op \in {"fill", "delete_stale_auction"}
    /\ ret.err = 0
    /\ ~has_auction(auctions, ret.auction_type, ret.user)
    /\ \E k \in DOMAIN auctions : k[2] = ret.user

\* an auction created next to a stored auction of another key
C17_WitnessCreated ==
    /\ ret.op = "create_auction"
    /\ ret.err = 0
    /\ Cardinality(DOMAIN auctions) > 1

AllPositive(m) == \A a \in DOMAIN m : m[a] > 0

\* C18: auctions are created with positive amounts only, and after any
\* sequence of fills every amount of a stored auction and of the scaled
\* auction a fill returns is strictly positive; the assets of the scaled
\* auction and of the stored remainder are among the assets the auction had
\* before the fill, so among those it was created with
C18_OnlyPositiveAmounts ==
    /\ \A k \in DOMAIN auctions :
          AllPositive(auctions[k].data.bid) /\ AllPositive(auctions[k].data.lot)
    /\ FillReturned =>
          /\ AllPositive(ret.to_fill.bid) /\ AllPositive(ret.to_fill.lot)
          /\ DOMAIN ret.to_fill.bid \subseteq DOMAIN ret.before.bid
          /\ DOMAIN ret.to_fill.lot \subseteq DOMAIN ret.before.lot
          /\ RetKey \in DOMAIN auctions =>
                /\ DOMAIN auctions[RetKey].data.bid
                      \subseteq DOMAIN ret.before.bid
                /\ DOMAIN auctions[RetKey].data.lot
                      \subseteq DOMAIN ret.before.lot

\* a fill that returned no lot, because it scaled to zero, and left a
\* remainder whose bid is used up while the lot remains
C18_Witness ==
    /\ FillReturned
    /\ DOMAIN ret.before.bid # {} /\ DOMAIN ret.before.lot # {}
    /\ DOMAIN ret.to_fill.bid # {}
    /\ DOMAIN ret.to_fill.lot = {}
    /\ RetKey \in DOMAIN auctions
    /\ DOMAIN auctions[RetKey].data.bid = {}
    /\ DOMAIN auctions[RetKey].data.lot # {}

\* C19: submit is atomic: when a request of the batch fails, or the health
\* check after the last request fails, or a token transfer at the end fails,
\* the reserve data, every user's positions, the auctions and every token
\* balance are what they were before the call, whatever the earlier requests
\* of the batch did
C19_SubmitAtomic ==
    [][(ret'.op = "submit" /\ ret'.err # 0)
       => /\ reserves' = reserves
          /\ positions' = positions
          /\ auctions' = auctions
          /\ balances' = balances]_vars

\* a batch whose first request was applied and whose second request failed
C19_Witness ==
    /\ ret.op = "submit"
    /\ ret.err = BadRequest
    /\ Len(ret.requests) = 2
    /\ ret.applied = 1

\* a batch whose requests were all applied, the first one filling the
\* liquidation auction, and whose final health check failed
C19_WitnessHealth ==
    /\ ret.op = "submit"
    /\ ret.err = InvalidHf
    /\ ret.applied = 2
    /\ ret.requests[1].request_type = FillUserLiquidationAuction
    /\ has_auction(auctions, UserLiquidation, samwise)

\* C20: submit changes state only when the spender authorized the call and,
\* when from is not the spender, from authorized it too; the receiver `to`
\* is never asked
C20_SubmitAuthorized ==
    [][(ret'.op = "submit"
        /\ <<reserves, positions, auctions, balances>>'
              # <<reserves, positions, auctions, balances>>)
       => /\ ret'.spender \in ret'.auths
          /\ ret'.user # ret'.spender => ret'.user \in ret'.auths]_vars

\* a submit that paid tokens out to a receiver who is neither from nor the
\* spender and did not authorize
C20_Witness ==
    /\ ret.op = "submit"
    /\ ret.err = 0
    /\ ret.to \notin ret.auths \cup {ret.user, ret.spender}
    /\ DOMAIN ret.pool_transfer # {}

\* a submit refused because from, who is not the spender, did not authorize
C20_WitnessRefused ==
    /\ ret.op = "submit"
    /\ ret.err = AuthError
    /\ ret.spender \in ret.auths
    /\ ret.user \notin ret.auths

\* the entry points that ask for the admin's authorization
AdminAuthorizedOps ==
    {"set_admin", "update_pool", "queue_set_reserve", "cancel_set_reserve",
     "set_status", "set_emissions_config"}

C21_WitnessRefused ==
    /\ ret.op = "update_pool"
    /\ ret.err = AuthError
    /\ ret.auths = {samwise}
    /\ pool.admin = bombadil

\* C22: the stored admin changes only in a set_admin call that both the
\* current admin and the new admin authorized; a set_admin lacking either
\* authorization leaves the pool as it was, and after a successful one the
\* stored admin is the new admin
C22_AdminHandOver ==
    [][/\ pool'.admin # pool.admin
            => /\ ret'.op = "set_admin"
               /\ pool.admin \in ret'.auths
               /\ ret'.new_admin \in ret'.auths
       /\ (ret'.op = "set_admin" /\ ~({pool.admin, ret'.new_admin} \subseteq ret'.auths))
            => /\ pool' = pool
               /\ ret'.err = AuthError
       /\ (ret'.op = "set_admin" /\ ret'.err = 0)
            => pool'.admin = ret'.new_admin]_vars

\* the admin handed the pool over to samwise, both having authorized
C22_Witness ==
    /\ ret.op = "set_admin"
    /\ ret.err = 0
    /\ ret.new_admin = samwise
    /\ ret.auths = {bombadil, samwise}
    /\ pool.admin = samwise

\* a hand-over only the current admin authorized was refused
C22_WitnessRefused ==
    /\ ret.op = "set_admin"
    /\ ret.err = AuthError
    /\ ret.new_admin = samwise
    /\ ret.auths = {bombadil}
    /\ pool.admin = bombadil

\* the asset is listed in the reserve list
Listed(res_list, asset) == \E i \in 1..Len(res_list) : res_list[i] = asset

\* C30: the reserve list is append-only and never longer than MAX_RESERVES:
\* a step leaves it alone or appends one asset, whose index is the previous
\* length; with MAX_RESERVES assets listed, adding another aborts with
\* BadRequest and changes nothing; applying a config to a listed reserve
\* keeps its index and the list; every reserve's index is its place in the
\* list
C30_ReserveListAppendOnly ==
    [][/\ Len(pool'.res_list) <= MAX_RESERVES
       /\ \/ pool'.res_list = pool.res_list
          \/ /\ ret'.op = "set_reserve"
             /\ ~Listed(pool.res_list, ret'.asset)
             /\ pool'.res_list = Append(pool.res_list, ret'.asset)
             /\ ret'.index = Len(pool.res_list)
       /\ (/\ ret'.op = "set_reserve"
           /\ ret'.err \notin {HostTrap, InitNotUnlocked}
           /\ ~has_res(pool, ret'.asset)
           /\ Len(pool.res_list) = MAX_RESERVES)
            => /\ ret'.err = BadRequest
               /\ pool' = pool
       /\ (ret'.op = "set_reserve" /\ ret'.err = 0 /\ has_res(pool, ret'.asset))
            => /\ ret'.index = pool.res_config[ret'.asset].index
               /\ pool'.res_config[ret'.asset].index = ret'.index
       /\ \A a \in DOMAIN pool'.res_config :
            pool'.res_list[pool'.res_config[a].index + 1] = a]_vars

\* set_reserve listed a fourth reserve at index 3
C30_Witness ==
    /\ ret.op = "set_reserve"
    /\ ret.err = 0
    /\ ret.asset = blnd
    /\ ret.index = 3
    /\ pool.res_list = Append(InitialPool.res_list, blnd)

\* with MAX_RESERVES reserves listed, one more was refused
C30_WitnessFull ==
    /\ ret.op = "set_reserve"
    /\ ret.err = BadRequest
    /\ ret.asset = blnd
    /\ Len(pool.res_list) = MAX_RESERVES
    /\ ~Listed(pool.res_list, blnd)

\* a listed reserve was configured again and kept index 0
C30_WitnessReconfigured ==
    /\ ret.op = "set_reserve"
    /\ ret.err = 0
    /\ ret.asset = underlying_0
    /\ ret.index = 0
    /\ pool.res_config[underlying_0].c_factor = 2000000

RoundTripped == ret.op = "round_trip"

\* the least whole number that is not below the rate
RateCeil(rate) ==
    (rate.hi \div LIMB) + (IF (rate.hi % LIMB) + rate.lo > 0 THEN 1 ELSE 0)

\* C26: for the b and the d side, an amount x >= 0 and a rate >= 10^12,
\* to_underlying(from_underlying(x)) is never above x and never below
\* x - ceil(rate / 10^12); at the rate 10^12 it is x
C26_RoundTripWithinRate ==
    RoundTripped =>
        /\ ret.tokens = from_underlying(ret.amount, ret.rate)
        /\ ret.underlying <= ret.amount
        /\ ret.underlying >= ret.amount - RateCeil(ret.rate)
        /\ ret.rate = RateOne => ret.underlying = ret.amount

\* C26 as stated: to_underlying(from_underlying(x)) lies in [x - 1, x]
C26_RoundTripOneUlp ==
    RoundTripped =>
        /\ ret.underlying <= ret.amount
        /\ ret.underlying >= ret.amount - 1

\* at the rate 1.6, 3 underlying are worth 1 token, which is worth 1
C26_Witness ==
    /\ RoundTripped
    /\ ret.rate = [hi |-> 1600000, lo |-> 0]
    /\ ret.amount = 3
    /\ ret.tokens = 1
    /\ ret.underlying = 1

\* a round trip on the d side that lost exactly one unit
C26_WitnessOneUlp ==
    /\ RoundTripped
    /\ ret.side = "d"
    /\ ret.rate = [hi |-> LIMB, lo |-> 3]
    /\ ret.amount > 0
    /\ ret.underlying = ret.amount - 1

\* all collateral withdrawn, then all debt repaid
WithdrawThenRepay ==
    <<Request(WithdrawCollateral, underlying_0, Whole),
      Request(RepayRequest, underlying_2, Whole)>>

Submitted == ret.op = "submit"

\* C23: the requests of a submit are applied in the order of the vector and
\* health is verified once, after the last: the batch that withdraws all
\* collateral and then repays all debt succeeds and leaves neither, although
\* the withdrawal submitted alone fails with InvalidHf; a borrow placed
\* before the repayment of everything is repaid with it, one placed after it
\* remains
C23_OrderedHealthAtEnd ==
    [][(ret'.op = "submit"
        /\ ret'.user = samwise
        /\ DOMAIN positions[samwise].collateral = {underlying_0}
        /\ DOMAIN positions[samwise].liabilities = {underlying_2})
       => /\ ret'.requests = WithdrawThenRepay
            => /\ ret'.err = 0
               /\ ret'.applied = 2
               /\ positions'[samwise].collateral = EmptyMap
               /\ positions'[samwise].liabilities = EmptyMap
          /\ ret'.requests = <<WithdrawThenRepay[1]>>
            => /\ ret'.err = InvalidHf
               /\ positions' = positions
          /\ (ret'.err = 0 /\ ret'.requests =
                <<Request(Borrow, underlying_2, 1), WithdrawThenRepay[2]>>)
            => underlying_2 \notin DOMAIN positions'[samwise].liabilities
          /\ (ret'.err = 0 /\ ret'.requests =
                <<WithdrawThenRepay[2], Request(Borrow, underlying_2, 1)>>)
            => MapGet(positions'[samwise].liabilities, underlying_2) = 1]_vars

\* the batch went through: samwise is left with no collateral and no debt
C23_Witness ==
    /\ Submitted
    /\ ret.err = 0
    /\ ret.requests = WithdrawThenRepay
    /\ ret.applied = 2
    /\ positions[samwise].collateral = EmptyMap
    /\ positions[samwise].liabilities = EmptyMap

\* the withdrawal alone was refused for the health it would leave
C23_WitnessAlone ==
    /\ Submitted
    /\ ret.err = InvalidHf
    /\ ret.requests = <<WithdrawThenRepay[1]>>

\* a borrow after the repayment of everything went through and remains
C23_WitnessOrder ==
    /\ Submitted
    /\ ret.err = 0
    /\ ret.requests = <<WithdrawThenRepay[2], Request(Borrow, underlying_2, 1)>>
    /\ positions[samwise].liabilities = (underlying_2 :> 1)

\* the one request of a batch of one
OnlyRequest == ret.requests[1]

C24_WitnessWithdraw ==
    /\ Submitted
    /\ ret.err = 0
    /\ ret.requests = <<WithdrawThenRepay[2], WithdrawThenRepay[1]>>
    /\ positions[ret.user].collateral = EmptyMap
    /\ MapGet(ret.pool_transfer, underlying_0) \in 1..(Whole - 1)

\* C25: a user never gains from rounding.  At a fixed b_rate, an amount
\* supplied to a reserve the user holds no supply of and withdrawn whole in
\* the same batch pays back at most the amount; at a fixed d_rate, an amount
\* borrowed from a reserve the user owes nothing of and repaid whole costs at
\* least the amount.  A supply mints the b tokens rounded down and a borrow
\* the d tokens rounded up; a repayment short of the debt burns the d tokens
\* rounded down.
C25_NoRoundingGain ==
    [][(ret'.op = "submit" /\ ret'.err = 0)
       => LET from == ret'.user
              r == ret'.requests[1]
              a == r.address
              b_rate == reserves[a].b_rate
              d_rate == reserves[a].d_rate
              b_minted == MapGet(positions'[from].supply, a)
                            - MapGet(positions[from].supply, a)
              d_minted == MapGet(positions'[from].liabilities, a)
                            - MapGet(positions[from].liabilities, a)
              d_burnt == 0 - d_minted
          IN  /\ (/\ Len(ret'.requests) = 2
                  /\ r.request_type = Supply
                  /\ ret'.requests[2] = Request(Withdraw, a, Whole)
                  /\ a \notin DOMAIN positions[from].supply)
                => /\ MapGet(ret'.spender_transfer, a) = r.amount
                   /\ MapGet(ret'.pool_transfer, a) <= r.amount
                   /\ positions'[from] = positions[from]
              /\ (/\ Len(ret'.requests) = 2
                  /\ r.request_type = Borrow
                  /\ ret'.requests[2] = Request(RepayRequest, a, Whole)
                  /\ a \notin DOMAIN positions[from].liabilities)
                => /\ MapGet(ret'.pool_transfer, a) = r.amount
                   /\ MapGet(ret'.spender_transfer, a) >= r.amount
                   /\ positions'[from] = positions[from]
              /\ (Len(ret'.requests) = 1 /\ r.request_type = Supply)
                => /\ RateFits(b_minted, b_rate, r.amount)
                   /\ ~RateFits(b_minted + 1, b_rate, r.amount)
                   /\ MapGet(ret'.spender_transfer, a) = r.amount
              /\ (Len(ret'.requests) = 1 /\ r.request_type = Borrow)
                => /\ RateCovers(d_minted, d_rate, r.amount)
                   /\ ~RateCovers(d_minted - 1, d_rate, r.amount)
                   /\ MapGet(ret'.pool_transfer, a) = r.amount
              /\ (/\ Len(ret'.requests) = 1
                  /\ r.request_type = RepayRequest
                  /\ r.amount <= to_asset_from_d_token(
                                    d_rate, positions[from].liabilities[a]))
                => /\ RateFits(d_burnt, d_rate, r.amount)
                   /\ ~RateFits(d_burnt + 1, d_rate, r.amount)
                   /\ MapGet(ret'.spender_transfer, a) = r.amount]_vars

\* 2 underlying supplied at the rate 1.6 and withdrawn whole came back as 1
C25_Witness ==
    /\ Submitted
    /\ ret.err = 0
    /\ ret.requests = <<Request(Supply, underlying_1, 2),
                        Request(Withdraw, underlying_1, Whole)>>
    /\ ret.spender_transfer = (underlying_1 :> 2)
    /\ ret.pool_transfer = (underlying_1 :> 1)

\* 1 underlying borrowed at the rate 1.6 and repaid whole cost 2
C25_WitnessBorrow ==
    /\ Submitted
    /\ ret.err = 0
    /\ ret.requests = <<Request(Borrow, underlying_1, 1),
                        Request(RepayRequest, underlying_1, Whole)>>
    /\ ret.pool_transfer = (underlying_1 :> 1)
    /\ ret.spender_transfer = (underlying_1 :> 2)

\* a repayment of 1 at the rate 1.000000000003 was taken and burnt no d token
C25_WitnessRepay ==
    /\ Submitted
    /\ ret.err = 0
    /\ ret.requests = <<Request(RepayRequest, underlying_2, 1)>>
    /\ ret.spender_transfer = (underlying_2 :> 1)
    /\ positions[samwise].liabilities = InitialPositions[samwise].liabilities

\* the users whose effective count of positions is above max_positions
OverMax(pos, p) ==
    {u \in Users : effective_count(pos[u]) > p.config.max_positions}

C27_WitnessRefused ==
    /\ Submitted
    /\ ret.err = MaxPositionsExceeded
    /\ ret.requests = <<Request(Supply, underlying_1, 2)>>
    /\ pool.config.max_positions = 2
    /\ effective_count(positions[samwise]) = 2

\* a fill left the liquidated user with debt and no collateral, and the debt
\* went to the backstop
C27_WitnessBadDebt ==
    /\ Submitted
    /\ ret.err = 0
    /\ ret.user = frodo
    /\ positions[samwise].collateral = EmptyMap
    /\ positions[samwise].liabilities = EmptyMap
    /\ MapGet(positions[backstop].liabilities, underlying_2)
          > MapGet(InitialPositions[backstop].liabilities, underlying_2)

\* the reserves a user holds both as collateral and as supply
InBoth(user_positions) ==
    DOMAIN user_positions.collateral \cap DOMAIN user_positions.supply

\* the request types of a batch
RequestTypes(requests) ==
    {requests[i].request_type : i \in 1..Len(requests)}

\* C28: collateral and supply are two balances of b tokens kept apart: a
\* batch of Supply and Withdraw requests changes no collateral, a batch of
\* SupplyCollateral and WithdrawCollateral requests changes no supply, and a
\* fill changes no supply; a supply to a reserve held as collateral leaves
\* the reserve in both maps, where it counts as one position
C28_CollateralAndSupplyApart ==
    [][ret'.op = "submit"
       => /\ RequestTypes(ret'.requests) \subseteq {Supply, Withdraw}
            => \A u \in Users :
                  positions'[u].collateral = positions[u].collateral
          /\ RequestTypes(ret'.requests)
                \subseteq {SupplyCollateral, WithdrawCollateral,
                           FillUserLiquidationAuction}
            => \A u \in Users : positions'[u].supply = positions[u].supply
          /\ (/\ ret'.err = 0
              /\ ret'.requests = <<Request(Supply, underlying_0, 2)>>
              /\ underlying_0 \in DOMAIN positions[ret'.user].collateral)
            => /\ underlying_0 \in InBoth(positions'[ret'.user])
               /\ effective_count(positions'[ret'.user])
                    = effective_count(positions[ret'.user])]_vars

\* C28 as stated: no reserve is in both the collateral map and the supply map
\* of a user
C28_CollateralXorSupply == \A u \in Users : InBoth(positions[u]) = {}

\* samwise supplied to the reserve already held as collateral: it is in both
\* maps, and samwise still has two positions
C28_Witness ==
    /\ Submitted
    /\ ret.err = 0
    /\ ret.requests = <<Request(Supply, underlying_0, 2)>>
    /\ InBoth(positions[samwise]) = {underlying_0}
    /\ effective_count(positions[samwise]) = 2

\* the amounts of every map of every user's positions
PositionAmounts(pos) ==
    UNION {{pos[u].collateral[a] : a \in DOMAIN pos[u].collateral}
             \cup {pos[u].supply[a] : a \in DOMAIN pos[u].supply}
             \cup {pos[u].liabilities[a] : a \in DOMAIN pos[u].liabilities} :
           u \in Users}

\* C29: no stored Positions holds an entry whose amount is zero; once all
\* collateral is withdrawn and all debt repaid the maps are empty; and a user
\* nothing was ever written for (frodo, until the liquidation is filled)
\* reads as three empty maps
C29_NoZeroEntries ==
    /\ \A amount \in PositionAmounts(positions) : amount > 0
    /\ (/\ Submitted
        /\ ret.err = 0
        /\ ret.requests \in {WithdrawThenRepay,
                             <<WithdrawThenRepay[2], WithdrawThenRepay[1]>>})
          => positions[ret.user] = EmptyPositions
    /\ has_auction(auctions, UserLiquidation, samwise)
          => positions[frodo] = EmptyPositions

\* samwise withdrew and repaid everything: three empty maps are stored
C29_Witness ==
    /\ Submitted
    /\ ret.err = 0
    /\ ret.applied = 2
    /\ ret.requests = <<WithdrawThenRepay[2], WithdrawThenRepay[1]>>
    /\ ret.user = samwise
    /\ positions[samwise] = EmptyPositions

\* the one b token that 3 underlying had minted was withdrawn by a request
\* for 1: the entry is gone, the other collateral is still stored
C29_WitnessPartial ==
    /\ Submitted
    /\ ret.err = 0
    /\ ret.requests = <<Request(SupplyCollateral, underlying_1, 3),
                        Request(WithdrawCollateral, underlying_1, 1)>>
    /\ underlying_1 \notin DOMAIN positions[samwise].collateral
    /\ underlying_0 \in DOMAIN positions[samwise].collateral
(* C31: gulp needs no authorization, leaves the reserve's b_rate and d_rate
   (and everything but backstop_credit) unchanged, returns the underlying
   the pool holds beyond what the reserve accounts for (zero when there is
   none) and raises backstop_credit by exactly the amount it returns *)
Surplus(res, bal, a) == bal[pool_address][a] - reserve_token_balance(res[a])

C31_WitnessNothing ==
    /\ ret.op = "gulp" /\ ret.result = 0
    /\ reserves[ret.asset].backstop_credit > 0

\* a gulp credits what the rounding of a request left with the pool
C31_WitnessDust ==
    /\ ret.op = "gulp" /\ ret.result > 0
    /\ \A a \in Reserves : balances[frodo][a] = UserFunds
(* C32: update_status asks for no authorization, and while the status is 4
   (admin-frozen) every update_status call aborts with StatusNotAllowed and
   changes nothing, whatever the backstop's state; the status leaves 4 only
   through a set_status the admin authorized *)
C32_AdminFrozenStays ==
    [][/\ ret'.op = "update_status" /\ pool.config.status # 4
            => ret'.err = 0
       /\ ret'.op = "update_status" /\ pool.config.status = 4
            => ret'.err = StatusNotAllowed /\ pool' = pool
       /\ pool.config.status = 4 /\ pool'.config.status # 4
            => /\ ret'.op = "set_status" /\ ret'.err = 0
               /\ pool.admin \in ret'.auths]_vars

\* an unsigned update_status on an admin-frozen pool with a healthy backstop
\* aborts
C32_Witness ==
    /\ ret.op = "update_status" /\ ret.err = StatusNotAllowed
    /\ ret.auths = {}
    /\ ret.status = 4 /\ pool.config.status = 4
    /\ ret.met_threshold /\ ret.q4w_pct = 0

\* the same with three quarters of the backstop queued
C32_WitnessQueued ==
    /\ ret.op = "update_status" /\ ret.err = StatusNotAllowed
    /\ pool.config.status = 4
    /\ ret.q4w_pct = 7500000

\* the admin lifts the freeze
C32_WitnessLifted ==
    /\ ret.op = "set_status" /\ ret.err = 0
    /\ pool.config.status = 0
    /\ ret.status = 4
(* C33: an update_status that goes through stores the status the backstop's
   state asks for and returns the value it stored, with nobody's
   authorization: from admin-active (0) with 50% of the deposits queued it
   stores 3 (on-ice); from 3, with the threshold met and less than 30%
   queued, it stores 1 (active); it stores a backstop status (1, 3, 5) or
   leaves the status as it is *)
C33_StatusFromBackstop ==
    [][ret'.op = "update_status" /\ ret'.err = 0 =>
          /\ pool' = [pool EXCEPT !.config.status = ret'.result]
          /\ pool'.config.status = ret'.result
          /\ ret'.result \in {1, 3, 5, pool.config.status}
          /\ pool.config.status = 0 /\ ret'.q4w_pct = 5000000
                => ret'.result = 3
          /\ pool.config.status = 3 /\ ret'.met_threshold
                                    /\ ret'.q4w_pct < 3000000
                => ret'.result = 1]_vars

\* nobody signs, half the deposits are queued: admin-active becomes on-ice
C33_Witness ==
    /\ ret.op = "update_status" /\ ret.err = 0 /\ ret.auths = {}
    /\ ret.status = 0 /\ ret.q4w_pct = 5000000 /\ ret.met_threshold
    /\ ret.result = 3 /\ pool.config.status = 3

\* nobody signs, the backstop is healthy again: on-ice becomes active
C33_WitnessThawed ==
    /\ ret.op = "update_status" /\ ret.err = 0 /\ ret.auths = {}
    /\ ret.status = 3 /\ ret.q4w_pct = 2999999 /\ ret.met_threshold
    /\ ret.result = 1 /\ pool.config.status = 1

\* three quarters queued: frozen
C33_WitnessFrozen ==
    /\ ret.op = "update_status" /\ ret.err = 0
    /\ ret.q4w_pct = 7500000
    /\ ret.result = 5 /\ pool.config.status = 5
(* C34: requests are gated by the pool status: status 5 rejects borrow,
   supply and liquidation-cancel requests, statuses 2 and 3 reject borrow
   and liquidation-cancel requests (and no supply, withdraw or repay
   request), and statuses 0 and 1 reject no request for the status *)
SingleRequest(rt) ==
    /\ ret'.op = "submit" /\ Len(ret'.requests) = 1
    /\ ret'.requests[1].request_type = rt

OnIceTypes == {Borrow, DeleteLiquidationAuction}
SupplyTypes == {Supply, SupplyCollateral}
GatedTypes ==
    {Supply, Withdraw, SupplyCollateral, WithdrawCollateral, Borrow,
     RepayRequest, DeleteLiquidationAuction}

C34_StatusGates ==
    [][\A rt \in GatedTypes :
          SingleRequest(rt) /\ ret'.err # AuthError =>
            LET status == pool.config.status
                refused == ret'.err = InvalidPoolStatus
            IN  /\ status = 5 => (refused <=> rt \in OnIceTypes \cup SupplyTypes)
                /\ status \in {2, 3} => (refused <=> rt \in OnIceTypes)
                /\ status \in {0, 1} => ~refused
                /\ refused => UNCHANGED <<positions, reserves, balances,
                                          auctions>>]_vars

(* C34 as stated: status 2 permits every user action, borrow and
   liquidation cancel included *)
C34_StatusGatesAsStated ==
    [][\A rt \in GatedTypes :
          SingleRequest(rt) /\ ret'.err # AuthError =>
            LET status == pool.config.status
                refused == ret'.err = InvalidPoolStatus
            IN  /\ status = 5 => (refused <=> rt \in OnIceTypes \cup SupplyTypes)
                /\ status = 3 => (refused <=> rt \in OnIceTypes)
                /\ status \in {0, 1, 2} => ~refused]_vars

LastRequest(rt, status) ==
    /\ ret.op = "submit" /\ Len(ret.requests) = 1
    /\ ret.requests[1].request_type = rt
    /\ pool.config.status = status

\* a borrow goes through on an active pool and is refused on an on-ice one
C34_Witness ==
    LastRequest(Borrow, 3) /\ ret.err = InvalidPoolStatus

C34_WitnessActive ==
    LastRequest(Borrow, 1) /\ ret.err = 0

\* admin on-ice refuses a borrow and the cancelling of a liquidation
C34_WitnessAdminOnIce ==
    LastRequest(Borrow, 2) /\ ret.err = InvalidPoolStatus

C34_WitnessCancel ==
    LastRequest(DeleteLiquidationAuction, 2) /\ ret.err = InvalidPoolStatus

C34_WitnessCancelled ==
    LastRequest(DeleteLiquidationAuction, 0) /\ ret.err = 0

\* a frozen pool refuses a supply and lets a repayment and a withdrawal
\* through; an on-ice pool takes a supply
C34_WitnessFrozen ==
    LastRequest(Supply, 5) /\ ret.err = InvalidPoolStatus

C34_WitnessFrozenRepay ==
    LastRequest(RepayRequest, 5) /\ ret.err = 0

C34_WitnessFrozenWithdraw ==
    LastRequest(Withdraw, 5) /\ ret.err = 0

C34_WitnessOnIceSupply ==
    LastRequest(SupplyCollateral, 3) /\ ret.err = 0
(* C35: a fill conserves base amounts: for each bid and lot asset what the
   filler is charged or paid is the block modifier applied to exactly the
   amount that left the stored auction (the amount before less the amount
   left), so with a modifier of 10^7 the filled amount plus the amount left
   is the amount before; assets never enter an auction. Over any sequence of
   fills in one block the debt still owed by the liquidated user (bid
   modifier 10^7) and the collateral they still hold (lot modifier 10^7)
   equal what is left in the stored auction, and are nothing once the
   auction is deleted *)
LeftIn(store, key, side, a) ==
    IF key \in DOMAIN store THEN MapGet(store[key].data[side], a) ELSE 0

SideLeft(store, key, side) ==
    IF key \in DOMAIN store THEN store[key].data[side] ELSE EmptyMap

C35_BaseConserved ==
    [][LET key == AuctionKey(UserLiquidation, samwise)
           db == sequence' - ScaleBlock
       IN  /\ (ret'.op = "fill" /\ ret'.err = 0) =>
                /\ ret'.before = auctions[key].data
                /\ DOMAIN SideLeft(auctions', key, "bid")
                        \subseteq DOMAIN ret'.before.bid
                /\ DOMAIN SideLeft(auctions', key, "lot")
                        \subseteq DOMAIN ret'.before.lot
                /\ \A a \in DOMAIN ret'.before.bid :
                    LET base == ret'.before.bid[a]
                                    - LeftIn(auctions', key, "bid", a)
                    IN  /\ base >= 0
                        /\ MapGet(ret'.to_fill.bid, a)
                                = CeilDiv(base * ret'.bid_mod, SCALAR_7)
                        /\ ret'.bid_mod = SCALAR_7 =>
                                MapGet(ret'.to_fill.bid, a)
                                    + LeftIn(auctions', key, "bid", a)
                                        = ret'.before.bid[a]
                /\ \A a \in DOMAIN ret'.before.lot :
                    LET base == ret'.before.lot[a]
                                    - LeftIn(auctions', key, "lot", a)
                    IN  /\ base >= 0
                        /\ MapGet(ret'.to_fill.lot, a)
                                = FloorDiv(base * ret'.lot_mod, SCALAR_7)
                        /\ ret'.lot_mod = SCALAR_7 =>
                                MapGet(ret'.to_fill.lot, a)
                                    + LeftIn(auctions', key, "lot", a)
                                        = ret'.before.lot[a]
           /\ db <= 200 =>
                positions'[samwise].liabilities
                    = SideLeft(auctions', key, "bid")
           /\ db >= 200 =>
                positions'[samwise].collateral
                    = SideLeft(auctions', key, "lot")]_vars

\* at offset 200 a third fill deletes what two partial fills left of an
\* auction of 33 and 33: the filler has taken over all of both
C35_Witness ==
    /\ FillReturned /\ ret.percent = 100
    /\ BlockDif = 200
    /\ RetKey \notin DOMAIN auctions
    /\ ret.before.bid = (underlying_2 :> 16)
    /\ ret.before.lot = (underlying_0 :> 17)
    /\ positions[frodo].liabilities = (underlying_2 :> 33)
    /\ positions[frodo].collateral = (underlying_0 :> 33)
    /\ positions[samwise] = EmptyPositions

\* a partial fill whose percent split rounds both ways
C35_WitnessPartial ==
    /\ FillReturned /\ ret.percent = 33
    /\ BlockDif = 100
    /\ ret.before.bid = (underlying_2 :> 7)
    /\ ret.before.lot = (underlying_0 :> 7)
    /\ StoredBid(underlying_2) = 4
    /\ StoredLot(underlying_0) = 5
    /\ ret.to_fill.lot = (underlying_0 :> 1)
(* C36: splitting a fill never favours the filler: after a fill of p
   percent, p in 1..99, filling 100% of what is left in the same block
   brings the total lot paid, per asset, to no more, and the total bid
   charged to no less, than one 100% fill of the auction as it was before
   would have paid and charged in that block *)
SplitTotal(side, a) ==
    MapGet(ret.to_fill[side], a)
        + MapGet(scale_auction(auctions[RetKey].data, 100,
                               sequence).to_fill[side], a)

WholeFill(side, a) ==
    MapGet(scale_auction(ret.before, 100, sequence).to_fill[side], a)

PartialFillReturned ==
    /\ FillReturned /\ Found
    /\ ret.percent \in 1..99
    /\ RetKey \in DOMAIN auctions

C36_SplitNeverFavoursFiller ==
    PartialFillReturned =>
        /\ \A a \in DOMAIN ret.before.lot :
                SplitTotal("lot", a) <= WholeFill("lot", a)
        /\ \A a \in DOMAIN ret.before.bid :
                SplitTotal("bid", a) >= WholeFill("bid", a)

\* a split that costs the filler a unit of lot
C36_Witness ==
    /\ PartialFillReturned
    /\ \E a \in DOMAIN ret.before.lot :
            SplitTotal("lot", a) < WholeFill("lot", a)

\* a split that costs the filler a unit of bid
C36_WitnessBid ==
    /\ PartialFillReturned
    /\ \E a \in DOMAIN ret.before.bid :
            SplitTotal("bid", a) > WholeFill("bid", a)

\* the two fills made one after the other at offset 300: of 7 and 7 the
\* filler holds a lot of 7 for a bid of 5, where one fill charges 4
C36_WitnessFilled ==
    /\ FillReturned /\ ret.percent = 100
    /\ BlockDif = 300
    /\ RetKey \notin DOMAIN auctions
    /\ ret.before.bid = (underlying_2 :> 4)
    /\ positions[frodo].collateral = (underlying_0 :> 7)
    /\ positions[frodo].liabilities = (underlying_2 :> 5)
(* C37: a fill of 1..99 percent never deletes an auction whose lot holds a
   positive amount: every lot asset keeps a positive amount in the stored
   remainder, so such an auction leaves storage only through a fill of 100
   percent; its bid entries can be emptied by fills below 100 percent *)
C37_PartialFillKeepsLot ==
    [][LET key == AuctionKey(UserLiquidation, samwise)
       IN  /\ (ret'.op = "fill" /\ ret'.err = 0 /\ ret'.percent \in 1..99
                /\ key \in DOMAIN auctions
                /\ DOMAIN auctions[key].data.lot # {}) =>
                    /\ key \in DOMAIN auctions'
                    /\ DOMAIN auctions'[key].data.lot
                            = DOMAIN auctions[key].data.lot
                    /\ \A a \in DOMAIN auctions[key].data.lot :
                        /\ auctions'[key].data.lot[a] > 0
                        /\ auctions'[key].data.lot[a]
                                <= auctions[key].data.lot[a]
           /\ (key \in DOMAIN auctions /\ key \notin DOMAIN auctions') =>
                    /\ ret'.op = "fill" /\ ret'.err = 0
                    /\ ret'.percent = 100]_vars

\* a fill of 99 percent empties the bid of an auction that earlier fills
\* brought down to one unit each side, and leaves the lot
C37_Witness ==
    /\ FillReturned /\ ret.percent = 99
    /\ ret.before.bid = (underlying_2 :> 1)
    /\ ret.before.lot = (underlying_0 :> 1)
    /\ positions[frodo].collateral # EmptyMap
    /\ RetKey \in DOMAIN auctions
    /\ auctions[RetKey].data.bid = EmptyMap
    /\ auctions[RetKey].data.lot = (underlying_0 :> 1)

\* a further fill of 99 percent finds no bid left and takes nothing
C37_WitnessNoBid ==
    /\ FillReturned /\ ret.percent = 99
    /\ ret.before.bid = EmptyMap
    /\ ret.before.lot = (underlying_0 :> 1)
    /\ RetKey \in DOMAIN auctions
    /\ auctions[RetKey].data = ret.before
(* C38: a fill of 100 percent always deletes the auction, at every block
   offset from 0 on; at offset 0, the auction's own block, it charges the
   whole bid, pays out no lot and still deletes the auction and settles *)
C38_FullFillDeletes ==
    (FillReturned /\ Found /\ ret.percent = 100) =>
        /\ BlockDif >= 0
        /\ RetKey \notin DOMAIN auctions
        /\ BlockDif = 0 =>
            /\ ret.to_fill.bid = ret.before.bid
            /\ ret.to_fill.lot = EmptyMap
            /\ ret.bid_mod = SCALAR_7 /\ ret.lot_mod = 0

\* a 100% fill in the auction's own block
C38_Witness ==
    /\ FillReturned /\ Found /\ ret.percent = 100
    /\ BlockDif = 0
    /\ RetKey \notin DOMAIN auctions
    /\ DOMAIN ret.before.lot # {}
    /\ ret.to_fill.lot = EmptyMap
    /\ ret.to_fill.bid = ret.before.bid

\* a 100% fill 600 blocks later: the whole lot for no bid
C38_WitnessLate ==
    /\ FillReturned /\ Found /\ ret.percent = 100
    /\ BlockDif = 600
    /\ RetKey \notin DOMAIN auctions
    /\ ret.to_fill.bid = EmptyMap
    /\ ret.to_fill.lot = ret.before.lot
(* C39: at every block offset both modifiers lie in 0..10^7 and at least one
   of them is 10^7; a block later, and at the next offset tried, the lot
   modifier is no smaller and the bid modifier no larger, and the same
   auction filled by the same percent pays no less of any lot asset and
   charges no more of any bid asset *)
LaterOffsets ==
    {BlockDif + 1}
        \cup {o \in ScaleOffsets :
                /\ o > BlockDif
                /\ \A x \in ScaleOffsets : x > BlockDif => o <= x}

C39_ModifiersMonotone ==
    (FillReturned /\ Found) =>
        /\ ret.bid_mod \in 0..SCALAR_7
        /\ ret.lot_mod \in 0..SCALAR_7
        /\ ret.bid_mod = SCALAR_7 \/ ret.lot_mod = SCALAR_7
        /\ \A db \in LaterOffsets :
            \A later \in {scale_auction(ret.before, ret.percent,
                                        ret.before.block + db)} :
                /\ later.err = 0
                /\ later.lot_mod >= ret.lot_mod
                /\ later.bid_mod <= ret.bid_mod
                /\ \A a \in DOMAIN ret.before.lot :
                        MapGet(later.to_fill.lot, a)
                            >= MapGet(ret.to_fill.lot, a)
                /\ \A a \in DOMAIN ret.before.bid :
                        MapGet(later.to_fill.bid, a)
                            <= MapGet(ret.to_fill.bid, a)

\* a fill one block before the lot is whole: a block later it pays a unit
\* more for the same bid
C39_Witness ==
    /\ FillReturned /\ Found
    /\ BlockDif = 199
    /\ ret.lot_mod = SCALAR_7 - per_block_scalar
    /\ ret.bid_mod = SCALAR_7
    /\ \E a \in DOMAIN ret.before.lot :
            MapGet(scale_auction(ret.before, ret.percent,
                                 sequence + 1).to_fill.lot, a)
                > MapGet(ret.to_fill.lot, a)

\* a fill while the bid falls: a block later it charges a unit less
C39_WitnessBid ==
    /\ FillReturned /\ Found
    /\ BlockDif = 399
    /\ ret.lot_mod = SCALAR_7
    /\ ret.bid_mod = per_block_scalar
    /\ \E a \in DOMAIN ret.before.bid :
            MapGet(scale_auction(ret.before, ret.percent,
                                 sequence + 1).to_fill.bid, a)
                < MapGet(ret.to_fill.bid, a)

====
